---- MODULE Spec2Model ----
(***************************************************************************)
(* Prediction validation job and trading simulator of the invest platform. *)
(*                                                                         *)
(* Units.  The TypeScript code works on JavaScript numbers and on Prisma   *)
(* Decimal columns.  The model keeps every quantity as an exact integer in *)
(* a fixed unit, and every toFixed(k) as a rounding division:              *)
(*   dates                     whole days (one StockPrice per company/day) *)
(*   close prices              price units (any positive integer)          *)
(*   confidence                hundredths            (0.80  ->  80)        *)
(*   percentages (stored)      hundredths of a percent (7.80 % -> 780)     *)
(*   confidenceWeightedScore   ten-thousandths       (0.8000 -> 8000)      *)
(*   simulator money, exact    1/10000 NOK           (1 NOK  -> 10000)     *)
(*   simulator money, reported 1/100 NOK, after toFixed(2)                 *)
(* A nullable column is Null (the empty tuple) or Some(v) (a 1-tuple).     *)
(***************************************************************************)
EXTENDS Integers, Sequences, FiniteSets, TLC

\* ------------------------------------------------------------------ bounds
MaxDay == 2
NumPreds == 2
SimPreds == 3

Days == 0..MaxDay
\* The target days of the simulator's cases: any two are more than a day apart.
SimDays == <<1, 3, 5>>
Companies == {1, 2}
\* The company whose quotes the validator specifications follow.
Tracked == CHOOSE c \in Companies : \A d \in Companies : c <= d
\* The market's closing price of a day, which saveStockPrices may record.
MarketClose(d) == IF d % 3 = 1 THEN 110 ELSE 100
Runners == {"scheduled", "manual"}
PredIds == 1..NumPreds
SimPredIds == 1..SimPreds

\* ------------------------------------------------------------------ values
Null == <<>>
Some(v) == <<v>>
Val(o) == o[1]

Abs(x) == IF x < 0 THEN -x ELSE x

\* Number.prototype.toFixed: the nearest multiple of the unit, a tie going away
\* from zero. RoundDiv(n, d) is n/d rounded so, for d > 0.
RoundDiv(n, d) ==
    LET q == Abs(n) \div d
        r == Abs(n) % d
        m == IF 2 * r >= d THEN q + 1 ELSE q
    IN  IF n >= 0 THEN m ELSE -m

SetMin(S) == CHOOSE x \in S : \A y \in S : x <= y
SetMax(S) == CHOOSE x \in S : \A y \in S : x >= y

RECURSIVE SetToSeqAsc(_)
SetToSeqAsc(S) ==
    IF S = {} THEN <<>> ELSE <<SetMin(S)>> \o SetToSeqAsc(S \ {SetMin(S)})

VARIABLES
    today,          \* the wall clock's day
    prices,         \* the StockPrice table: company -> day -> Null | Some(close)
    predictions,    \* the Prediction table: id -> row
    run,            \* one validatePredictions() call per runner
    writes,         \* per prediction, the prisma.prediction.update calls made on it
    sim,            \* one simulateHistoricalTrading() call
    stats,          \* the answer of the last getAccuracyStats() call
    recommendations,\* the answer of the last getTradingRecommendations() call
    indicators,     \* the TechnicalIndicator table: a bag of rows
    calc,           \* one calculateAndSaveIndicators() call
    batch,          \* one calculateAllTrackedIndicators() call
    lastRun,        \* per ticker, what its last completed indicator call left
    lib,            \* a price series and the indicator library's answer on it
    calendar        \* a wall-clock instant and the market calendar's answers

vars == <<today, prices, predictions, run, writes, sim,
          stats, recommendations, indicators, calc, batch, lastRun, lib, calendar>>

\* No indicator call is running.
IdleCalc ==
    [pc |-> "idle", caller |-> "none", ticker |-> "none", snapshots |-> <<>>,
     idx |-> 1, savedCount |-> 0, failedSaves |-> 0, result |-> <<>>]
IdleBatch ==
    [pc |-> "idle", companies |-> <<>>, idx |-> 1, results |-> <<>>,
     successful |-> 0, failed |-> 0, result |-> <<>>]

\* Nothing has been asked of the analytics and indicator services yet.
QuietServices ==
    /\ stats = <<>> /\ recommendations = <<>>
    /\ indicators = <<>> /\ calc = IdleCalc /\ batch = IdleBatch
    /\ lastRun = [c \in Companies |-> <<>>]
Quiet == QuietServices /\ lib = <<>> /\ calendar = <<>>

\* --------------------------------------------------- the Prediction table
\* A row as the prediction generator creates it: the enrichment columns null.
PendingRow(company, predDate, tgtDate, direction, conf, price) ==
    [companyId |-> company, predictionDate |-> predDate,
     targetDate |-> tgtDate, predictedDirection |-> direction,
     confidence |-> conf, predictedPrice |-> price,
     actualDirection |-> Null, actualPrice |-> Null, actualChangePercent |-> Null,
     isCorrect |-> Null, confidenceWeightedScore |-> Null,
     priceErrorPercent |-> Null, tradingReturn |-> Null]

EnrichmentFields ==
    {"actualDirection", "actualPrice", "actualChangePercent", "isCorrect",
     "confidenceWeightedScore", "priceErrorPercent", "tradingReturn"}

Pending(row) == row.isCorrect = Null
Resolved(row) == row.isCorrect # Null

\* ------------------------------------------------- validatePredictions()
\* where: { targetDate: { lt: today }, isCorrect: null }
UnvalidatedMut(preds, now) ==
    {p \in DOMAIN preds : preds[p].targetDate < now}
UnvalidatedLte(preds, now) ==
    {p \in DOMAIN preds : preds[p].targetDate <= now /\ preds[p].isCorrect = Null}
Unvalidated(preds, now) ==
    {p \in DOMAIN preds : preds[p].targetDate < now /\ preds[p].isCorrect = Null}

\* stockPrice.findFirst({companyId, date: {gte: targetDate, lt: nextDay}}, date asc)
FindActualPriceOpen(table, companyId, targetDate) ==
    LET hits == {d \in DOMAIN table[companyId] :
                    d >= targetDate /\ table[companyId][d] # Null}
    IN  IF hits = {} THEN Null ELSE table[companyId][SetMin(hits)]
FindActualPrice(table, companyId, targetDate) ==
    LET nextDay == targetDate + 1
        hits == {d \in DOMAIN table[companyId] :
                    d >= targetDate /\ d < nextDay /\ table[companyId][d] # Null}
    IN  IF hits = {} THEN Null ELSE table[companyId][SetMin(hits)]

\* stockPrice.findFirst({companyId, date: {lte: predictionDate}}, date desc)
FindPreviousPriceLt(table, companyId, predictionDate) ==
    LET hits == {d \in DOMAIN table[companyId] :
                    d < predictionDate /\ table[companyId][d] # Null}
    IN  IF hits = {} THEN Null ELSE table[companyId][SetMax(hits)]
FindPreviousPrice(table, companyId, predictionDate) ==
    LET hits == {d \in DOMAIN table[companyId] :
                    d <= predictionDate /\ table[companyId][d] # Null}
    IN  IF hits = {} THEN Null ELSE table[companyId][SetMax(hits)]

\* The data of prisma.prediction.update for one prediction, from the two closes.
ActualDirectionGe(actualClose, previousClose) ==
    IF actualClose - previousClose >= 0 THEN "up" ELSE "down"
ActualDirection(actualClose, previousClose) ==
    IF actualClose - previousClose > 0 THEN "up"
    ELSE IF actualClose - previousClose < 0 THEN "down" ELSE "flat"

IsCorrect(row, actualClose, previousClose) ==
    \/ row.predictedDirection = "up" /\ ActualDirection(actualClose, previousClose) = "up"
    \/ row.predictedDirection = "down" /\ ActualDirection(actualClose, previousClose) = "down"

\* priceErrorPercent: set when predictedPrice is truthy; the stored column is
\* `priceErrorPercent ? toFixed(2) : null`, so an error of exactly 0 stores null.
PriceErrorPercent(row, actualClose) ==
    IF row.predictedPrice = Null \/ Val(row.predictedPrice) = 0 THEN Null
    ELSE IF Val(row.predictedPrice) = actualClose THEN Null
    ELSE Some(RoundDiv(10000 * Abs(Val(row.predictedPrice) - actualClose), actualClose))

\* tradingReturn: grossReturn% * confidence - 0.2 when confidence > 0.50; the
\* stored column is `tradingReturn ? toFixed(2) : null`, so a return of exactly
\* 0 stores null. TradingReturnNum / previousClose is the return in hundredths
\* of a percent.
TradingReturnNum(row, actualClose, previousClose) ==
    IF row.predictedDirection = "up"
    THEN 100 * (actualClose - previousClose) * row.confidence - 20 * previousClose
    ELSE 100 * (previousClose - actualClose) * row.confidence - 20 * previousClose

TradingReturn(row, actualClose, previousClose) ==
    IF row.confidence > 50 /\ row.predictedDirection \in {"up", "down"}
    THEN IF TradingReturnNum(row, actualClose, previousClose) = 0 THEN Null
         ELSE Some(RoundDiv(TradingReturnNum(row, actualClose, previousClose),
                            previousClose))
    ELSE Null

Enrich(row, actualClose, previousClose) ==
    [row EXCEPT
       !.actualDirection = Some(ActualDirection(actualClose, previousClose)),
       !.actualPrice = Some(actualClose),
       !.actualChangePercent =
           Some(RoundDiv(10000 * (actualClose - previousClose), previousClose)),
       !.isCorrect = Some(IsCorrect(row, actualClose, previousClose)),
       !.confidenceWeightedScore =
           Some(IF IsCorrect(row, actualClose, previousClose)
                THEN 100 * row.confidence ELSE 0),
       !.priceErrorPercent = PriceErrorPercent(row, actualClose),
       !.tradingReturn = TradingReturn(row, actualClose, previousClose)]

IdleRun ==
    [pc |-> "idle", list |-> <<>>, idx |-> 1, actualPrice |-> Null,
     previousPrice |-> Null, validated |-> 0, correct |-> 0, incorrect |-> 0,
     skipped |-> {}, errors |-> {}]

IdlePcs == {"idle", "threw"}
ItemPcs == {"actual", "previous", "update"}

Current(r) == run[r].list[run[r].idx]
InLoop(r) == run[r].pc \in ItemPcs /\ run[r].idx <= Len(run[r].list)

\* `continue`, or the end of the loop body: on to the next prediction.
NextItem(rec) ==
    [rec EXCEPT !.pc = "actual", !.idx = @ + 1, !.actualPrice = Null,
                !.previousPrice = Null]

\* The per-item catch block: the error is logged and the loop goes on.
ItemCatchAbort(rec, p) ==
    [rec EXCEPT !.pc = "actual", !.idx = Len(rec.list) + 1, !.actualPrice = Null,
                !.previousPrice = Null, !.errors = @ \cup {p}]
ItemCatch(rec, p) ==
    [NextItem(rec) EXCEPT !.errors = @ \cup {p}]

\* The wall clock passes midnight.
Tick ==
    /\ today <= MaxDay
    /\ today' = today + 1
    /\ UNCHANGED <<prices, predictions, run, writes, sim,
                 stats, recommendations, indicators, calc, batch, lastRun, lib, calendar>>

\* saveStockPrices: an upsert by (companyId, date) of a fetched quote.
SaveStockPrice(c, d, close) ==
    /\ d <= today
    /\ prices[c][d] # Some(close)
    /\ prices' = [prices EXCEPT ![c][d] = Some(close)]
    /\ UNCHANGED <<today, predictions, run, writes, sim,
                 stats, recommendations, indicators, calc, batch, lastRun, lib, calendar>>

\* validatePredictions() up to the first await's result: today is taken and
\* findMany answers with the pending predictions whose target date has passed.
StartRun(r) ==
    /\ run[r].pc \in IdlePcs
    /\ run' = [run EXCEPT ![r] =
                 [IdleRun EXCEPT !.pc = "actual",
                                 !.list = SetToSeqAsc(Unvalidated(predictions, today))]]
    /\ UNCHANGED <<today, prices, predictions, writes, sim,
                 stats, recommendations, indicators, calc, batch, lastRun, lib, calendar>>

\* findMany rejects: the outer catch logs and rethrows.
StartRunThrows(r) ==
    /\ run[r].pc \in IdlePcs
    /\ run' = [run EXCEPT ![r] = [IdleRun EXCEPT !.pc = "threw"]]
    /\ UNCHANGED <<today, prices, predictions, writes, sim,
                 stats, recommendations, indicators, calc, batch, lastRun, lib, calendar>>

\* The actual price of the target date; `continue` when there is none.
ReadActual(r) ==
    /\ InLoop(r) /\ run[r].pc = "actual"
    /\ LET p == Current(r)
           found == FindActualPrice(prices, predictions[p].companyId,
                                    predictions[p].targetDate)
       IN  run' = [run EXCEPT ![r] =
                       IF found = Null
                       THEN [NextItem(@) EXCEPT !.skipped = @ \cup {p}]
                       ELSE [@ EXCEPT !.pc = "previous", !.actualPrice = found]]
    /\ UNCHANGED <<today, prices, predictions, writes, sim,
                 stats, recommendations, indicators, calc, batch, lastRun, lib, calendar>>

\* The baseline price; `continue` when there is none.
ReadPrevious(r) ==
    /\ InLoop(r) /\ run[r].pc = "previous"
    /\ LET p == Current(r)
           found == FindPreviousPrice(prices, predictions[p].companyId,
                                      predictions[p].predictionDate)
       IN  run' = [run EXCEPT ![r] =
                       IF found = Null
                       THEN [NextItem(@) EXCEPT !.skipped = @ \cup {p}]
                       ELSE [@ EXCEPT !.pc = "update", !.previousPrice = found]]
    /\ UNCHANGED <<today, prices, predictions, writes, sim,
                 stats, recommendations, indicators, calc, batch, lastRun, lib, calendar>>

\* prisma.prediction.update({where: {id}}) and the counters after it.
Update(r) ==
    /\ InLoop(r) /\ run[r].pc = "update"
    /\ LET p == Current(r)
           row == Enrich(predictions[p], Val(run[r].actualPrice),
                         Val(run[r].previousPrice))
       IN  /\ predictions' = [predictions EXCEPT ![p] = row]
           /\ writes' = [writes EXCEPT ![p] = @ + 1]
           /\ run' = [run EXCEPT ![r] =
                        [NextItem(@) EXCEPT
                           !.validated = @ + 1,
                           !.correct = IF Val(row.isCorrect) THEN @ + 1 ELSE @,
                           !.incorrect = IF Val(row.isCorrect) THEN @ ELSE @ + 1]]
    /\ UNCHANGED <<today, prices, sim,
                 stats, recommendations, indicators, calc, batch, lastRun, lib, calendar>>

\* A store call of the loop body rejects: nothing is written for this item.
ItemError(r) ==
    /\ InLoop(r)
    /\ run' = [run EXCEPT ![r] = ItemCatch(@, Current(r))]
    /\ UNCHANGED <<today, prices, predictions, writes, sim,
                 stats, recommendations, indicators, calc, batch, lastRun, lib, calendar>>

\* The loop is over: the call is about to return its counters.
Finished(r) == run[r].pc = "actual" /\ run[r].idx > Len(run[r].list)

\* return { validated, correct, incorrect }: the call is over.
Return(r) ==
    /\ Finished(r)
    /\ run' = [run EXCEPT ![r] = IdleRun]
    /\ UNCHANGED <<today, prices, predictions, writes, sim,
                 stats, recommendations, indicators, calc, batch, lastRun, lib, calendar>>

\* ------------------------------------------- simulateHistoricalTrading()
StartingCapital == 100000
DefaultMinConfidence == 55
DefaultPositionSize == 10000

\* 1 NOK in the simulator's exact money unit.
Nok == 100 * 100

\* where: { isCorrect: { not: null }, confidence: { gte: minConfidence } }
Qualifying(preds, minConfidence) ==
    {p \in DOMAIN preds :
        preds[p].isCorrect # Null /\ preds[p].confidence >= minConfidence}

\* orderBy: { targetDate: 'asc' }: every order of S that is ascending in
\* targetDate (the store decides the order of equal dates).
RECURSIVE Unordered(_, _)
Unordered(preds, S) ==
    IF S = {} THEN {<<>>}
    ELSE UNION {{<<p>> \o t : t \in Unordered(preds, S \ {p})} : p \in S}
RECURSIVE ByTargetDate(_, _)
ByTargetDate(preds, S) ==
    IF S = {} THEN {<<>>}
    ELSE LET firsts == {p \in S : \A q \in S : preds[p].targetDate <= preds[q].targetDate}
         IN  UNION {{<<p>> \o t : t \in ByTargetDate(preds, S \ {p})} : p \in firsts}

\* if (currentCapital < positionSize) continue
EnoughCapitalNoCheck(capital, positionSize) == TRUE
EnoughCapital(capital, positionSize) == ~(capital < positionSize * Nok)

\* shares * (entryPrice - previousPrice), where previousPrice =
\* entryPrice / (1 + actualChangePercent / 100) and shares =
\* positionSize / previousPrice: that is positionSize * actualChangePercent / 100
\* (entryPrice # 0, actualChangePercent # -100), here in 1/10000 NOK.
LongReturn(row, positionSize) == positionSize * Val(row.actualChangePercent)
\* shares * (previousPrice - entryPrice)
ShortReturn(row, positionSize) == -(positionSize * Val(row.actualChangePercent))

\* positionSize * 0.002
Fee(positionSize) == 20 * positionSize

\* tradeReturn of the loop body's four branches: a long position for a
\* prediction of "up", a short one otherwise.
GrossReturnByOutcome(row, positionSize) ==
    IF row.actualDirection = Some("down") THEN ShortReturn(row, positionSize)
    ELSE LongReturn(row, positionSize)
GrossReturn(row, positionSize) ==
    IF row.actualDirection = Some("up") /\ row.predictedDirection = "up"
    THEN LongReturn(row, positionSize)
    ELSE IF row.actualDirection = Some("down") /\ row.predictedDirection = "down"
    THEN ShortReturn(row, positionSize)
    ELSE IF row.predictedDirection = "up" THEN LongReturn(row, positionSize)
    ELSE ShortReturn(row, positionSize)

\* trades.push({date, ticker, type, confidence, return, returnPercent})
Trade(p, row, positionSize) ==
    [pid |-> p, date |-> row.targetDate, ticker |-> row.companyId,
     type |-> IF row.predictedDirection = "up" THEN "BUY" ELSE "SHORT",
     confidence |-> row.confidence,
     return |-> GrossReturn(row, positionSize) - Fee(positionSize),
     returnPercent |-> IF row.predictedDirection = "up"
                       THEN Val(row.actualChangePercent) - 20
                       ELSE -Val(row.actualChangePercent) - 20]

\* currentCapital += tradeReturn - positionSize * 0.002
CapitalAfterNoFee(capital, row, positionSize) ==
    capital + GrossReturn(row, positionSize)
CapitalAfter(capital, row, positionSize) ==
    capital + GrossReturn(row, positionSize) - Fee(positionSize)

IdleSim ==
    [pc |-> "idle", minConfidence |-> 0, positionSize |-> 0, list |-> <<>>,
     idx |-> 1, currentCapital |-> 0, trades |-> <<>>, openPositions |-> {},
     result |-> Null]

\* findMany and the ledger's initial state. The call reads the store and keeps
\* nothing between calls, so one call per behaviour is followed.
SimStart(minConfidence, positionSize) ==
    /\ sim.pc = "idle"
    /\ \E order \in ByTargetDate(predictions, Qualifying(predictions, minConfidence)) :
          sim' = [IdleSim EXCEPT !.pc = "loop", !.minConfidence = minConfidence,
                                 !.positionSize = positionSize, !.list = order,
                                 !.currentCapital = StartingCapital * Nok]
    /\ UNCHANGED <<today, prices, predictions, run, writes,
                 stats, recommendations, indicators, calc, batch, lastRun, lib, calendar>>

\* One pass of the loop body. openPositions is consulted and never added to.
SimStep ==
    /\ sim.pc = "loop" /\ sim.idx <= Len(sim.list)
    /\ LET p == sim.list[sim.idx]
           row == predictions[p]
           trade == Trade(p, row, sim.positionSize)
       IN  sim' = IF row.companyId \in sim.openPositions
                  THEN [sim EXCEPT !.idx = @ + 1]
                  ELSE IF ~EnoughCapital(sim.currentCapital, sim.positionSize)
                  THEN [sim EXCEPT !.idx = @ + 1]
                  ELSE [sim EXCEPT !.idx = @ + 1,
                                   !.trades = Append(@, trade),
                                   !.currentCapital =
                                       CapitalAfter(@, row, sim.positionSize)]
    /\ UNCHANGED <<today, prices, predictions, run, writes,
                 stats, recommendations, indicators, calc, batch, lastRun, lib, calendar>>

RECURSIVE SumReturns(_)
SumReturns(trades) ==
    IF trades = <<>> THEN 0 ELSE Head(trades).return + SumReturns(Tail(trades))

\* toFixed(2) of an amount held in 1/10000 NOK: the amount in 1/100 NOK.
ToCents(amount) == RoundDiv(amount, 100)

\* ((peak - runningCapital) / peak) * 100 through toFixed(2): hundredths of a
\* percent, the peak taken in whole NOK (it is never under the starting capital).
DrawdownPercent(peak, runningCapital) ==
    RoundDiv(peak - runningCapital, peak \div Nok)

\* The loop of lines 231-240, from the given peak, maxDrawdown and capital on.
RECURSIVE DrawdownLoopFixedPeak(_, _, _, _)
DrawdownLoopFixedPeak(trades, peak, maxDrawdown, runningCapital) ==
    IF trades = <<>> THEN maxDrawdown
    ELSE LET capital == runningCapital + Head(trades).return
             drawdown == DrawdownPercent(peak, capital)
         IN  DrawdownLoopFixedPeak(Tail(trades), peak,
                                   IF drawdown > maxDrawdown THEN drawdown ELSE maxDrawdown,
                                   capital)
RECURSIVE DrawdownLoop(_, _, _, _)
DrawdownLoop(trades, peak, maxDrawdown, runningCapital) ==
    IF trades = <<>> THEN maxDrawdown
    ELSE LET capital == runningCapital + Head(trades).return
             newPeak == IF capital > peak THEN capital ELSE peak
             drawdown == DrawdownPercent(newPeak, capital)
         IN  DrawdownLoop(Tail(trades), newPeak,
                          IF drawdown > maxDrawdown THEN drawdown ELSE maxDrawdown,
                          capital)

\* The summary and the reported trades: every amount through toFixed(2).
SimResult(s) ==
    [summary |->
        [startingCapital |-> StartingCapital * 100,
         currentCapital |-> ToCents(s.currentCapital),
         totalReturn |-> ToCents(s.currentCapital - StartingCapital * Nok),
         totalTrades |-> Len(s.trades),
         winningTrades |-> Cardinality({i \in DOMAIN s.trades : s.trades[i].return > 0}),
         losingTrades |-> Cardinality({i \in DOMAIN s.trades : s.trades[i].return <= 0}),
         maxDrawdown |-> DrawdownLoop(s.trades, StartingCapital * Nok, 0,
                                      StartingCapital * Nok)],
     trades |-> [i \in DOMAIN s.trades |->
                   [s.trades[i] EXCEPT !.return = ToCents(@)]]]

SimFinish ==
    /\ sim.pc = "loop" /\ sim.idx > Len(sim.list)
    /\ sim' = [sim EXCEPT !.pc = "done", !.result = Some(SimResult(sim))]
    /\ UNCHANGED <<today, prices, predictions, run, writes,
                 stats, recommendations, indicators, calc, batch, lastRun, lib, calendar>>

\* ---------------------------------------------------------- validator specs
\* What the prediction generator stores: direction, confidence, predicted price.
Forecasts ==
    {[predictedDirection |-> "up", confidence |-> 80, predictedPrice |-> Some(110)]}

PendingRows ==
    {PendingRow(c, pd, td, f.predictedDirection, f.confidence, f.predictedPrice) :
        c \in {Tracked}, pd \in Days, td \in Days, f \in Forecasts}

Init ==
    /\ today = 0
    /\ prices = [c \in {Tracked} |-> [d \in Days |-> Null]]
    /\ predictions \in [PredIds -> {row \in PendingRows :
                                       row.predictionDate <= row.targetDate}]
    /\ run = [r \in Runners |-> IdleRun]
    /\ writes = [p \in PredIds |-> 0]
    /\ sim = IdleSim
    /\ Quiet

Environment ==
    \/ Tick
    \/ \E d \in Days : SaveStockPrice(Tracked, d, MarketClose(d))

RunStep(r) ==
    \/ ReadActual(r)
    \/ ReadPrevious(r)
    \/ Update(r)
    \/ ItemError(r)
    \/ Return(r)

Calls(r) == StartRun(r) \/ StartRunThrows(r) \/ RunStep(r)

\* The scheduled job alone: the queue runs one validation job at a time.
Next ==
    \/ Environment
    \/ Calls("scheduled")

Spec == Init /\ [][Next]_vars

\* The manual trigger (POST /analytics/validate-predictions) calls
\* validatePredictions() in the same process, and may overlap the scheduled job.
NextOverlap ==
    \/ Environment
    \/ \E r \in Runners : Calls(r)

OverlapSpec == Init /\ [][NextOverlap]_vars

\* ---------------------------------------------------------- simulator spec
\* Resolved predictions as the validator stores them: direction, confidence,
\* baseline close, actual close.
SimTemplates ==
    << <<"up", 80, 100, 110>>, <<"up", 60, 110, 100>>, <<"down", 70, 110, 100>>,
       <<"down", 80, 100, 110>>, <<"down", 60, 100, 100>>, <<"up", 50, 100, 110>> >>

\* positionSize is a query parameter: the default, and one close to the capital.
PositionSizes == {DefaultPositionSize, 99999}

NumSimRows == Len(SimTemplates) * Cardinality(Companies) * Len(SimDays)

\* Row k of the table of cases: template, then company, then target day.
SimRowAt(k) ==
    LET d == SimDays[((k - 1) % Len(SimDays)) + 1]
        c == (((k - 1) \div Len(SimDays)) % Cardinality(Companies)) + 1
        t == SimTemplates[((k - 1) \div (Len(SimDays) * Cardinality(Companies))) + 1]
    IN  Enrich(PendingRow(c, d - 1, d, t[1], t[2], Null), t[4], t[3])

\* The stored predictions, up to the naming of their ids.
InitSim ==
    /\ today = SimDays[Len(SimDays)] + 1
    /\ prices = [c \in {Tracked} |-> [d \in Days |-> Null]]
    /\ \E g \in [SimPredIds -> 1..NumSimRows] :
          /\ \A i, j \in SimPredIds : i < j => g[i] <= g[j]
          /\ predictions = [i \in SimPredIds |-> SimRowAt(g[i])]
    /\ run = [r \in Runners |-> IdleRun]
    /\ writes = [p \in SimPredIds |-> 1]
    /\ sim = IdleSim
    /\ Quiet

NextSim ==
    \/ \E ps \in PositionSizes : SimStart(DefaultMinConfidence, ps)
    \/ SimStep
    \/ SimFinish

SimSpec == InitSim /\ [][NextSim]_vars

\* ------------------------------------------------ validator: properties
\* The PricePoints a prediction is resolved against, read off the price table.
HasTargetPrice(p) ==
    prices[predictions[p].companyId][predictions[p].targetDate] # Null
HasBaselinePrice(p) ==
    \E d \in Days : /\ d <= predictions[p].predictionDate
                    /\ prices[predictions[p].companyId][d] # Null
InList(r, p) == \E i \in DOMAIN run[r].list : run[r].list[i] = p

\* C1: a call that follows a completed one, with no new price data, leaves
\* every resolved prediction untouched (no field rewritten, no further write)
\* and does not count it: a call's work list holds pending predictions only,
\* and `validated` grows only on a prediction that was pending.
C1_SecondCallLeavesResolved ==
    [][ /\ \A p \in PredIds :
              Resolved(predictions[p]) =>
                  predictions'[p] = predictions[p] /\ writes'[p] = writes[p]
        /\ \A r \in Runners :
              (run[r].pc \in IdlePcs /\ run'[r].pc = "actual") =>
                  \A i \in DOMAIN run'[r].list :
                      Pending(predictions[run'[r].list[i]])
        /\ \A r \in Runners :
              run'[r].validated > run[r].validated =>
                  Pending(predictions[Current(r)]) ]_vars

\* C1 witness: a later call is about to return validated = 0 while a
\* prediction resolved by an earlier call, written once, was not on its list.
C1_Witness ==
    \E r \in Runners, p \in PredIds :
        /\ Finished(r) /\ run[r].validated = 0
        /\ Resolved(predictions[p]) /\ writes[p] = 1
        /\ ~InList(r, p)
        /\ HasTargetPrice(p) /\ HasBaselinePrice(p)

\* C2 (as stated): with two overlapping runs, each pending prediction is
\* written by at most one run.
C2_WrittenByOneRun == \A p \in PredIds : writes[p] <= 1

C8_MissingPriceSkips ==
    /\ [](\A p \in PredIds :
              Resolved(predictions[p]) => HasTargetPrice(p) /\ HasBaselinePrice(p))
    /\ [][ \A r \in Runners :
             /\ run'[r].skipped # run[r].skipped /\ run'[r].pc # "idle" =>
                   /\ run'[r].skipped = run[r].skipped \cup {Current(r)}
                   /\ ~HasTargetPrice(Current(r)) \/ ~HasBaselinePrice(Current(r))
                   /\ predictions' = predictions /\ writes' = writes
                   /\ run'[r].validated = run[r].validated
                   /\ run'[r].correct = run[r].correct
                   /\ run'[r].incorrect = run[r].incorrect
                   /\ run'[r].idx = run[r].idx + 1
             /\ ( /\ InLoop(r) /\ run'[r] # run[r]
                  /\ run'[r].errors = run[r].errors
                  /\ \/ run[r].pc = "actual" /\ ~HasTargetPrice(Current(r))
                     \/ run[r].pc = "previous" /\ ~HasBaselinePrice(Current(r)) ) =>
                   run'[r].skipped = run[r].skipped \cup {Current(r)} ]_vars

\* C8 witness: a call is over, it skipped a prediction for a missing
\* PricePoint, and that prediction is still pending and was never written.
C8_Witness ==
    \E r \in Runners, p \in PredIds :
        /\ Finished(r) /\ p \in run[r].skipped
        /\ ~HasTargetPrice(p) \/ ~HasBaselinePrice(p)
        /\ predictions[p].targetDate < today
        /\ Pending(predictions[p]) /\ writes[p] = 0
        /\ run[r].validated = 0

\* C10: a failure on one item never ends the batch: inside the loop the call
\* never throws, a step moves on by at most one item, and every item passed is
\* resolved, skipped or logged as failed; the call ends by returning counts.
C10_ItemFailureDoesNotAbort ==
    /\ [](\A r \in Runners :
              (InLoop(r) \/ Finished(r)) =>
                  \A i \in DOMAIN run[r].list :
                      i < run[r].idx =>
                          \/ Resolved(predictions[run[r].list[i]])
                          \/ run[r].list[i] \in run[r].skipped
                          \/ run[r].list[i] \in run[r].errors)
    /\ [][ \A r \in Runners :
             InLoop(r) =>
                 /\ run'[r].pc # "threw"
                 /\ run'[r].list = run[r].list
                 /\ run'[r].idx \in {run[r].idx, run[r].idx + 1}
                 /\ run'[r].validated = run'[r].correct + run'[r].incorrect ]_vars

\* C10 witness: a call is over in which an item failed and a later item, with
\* both PricePoints, was resolved and counted.
C10_Witness ==
    \E r \in Runners :
        /\ Finished(r) /\ run[r].validated >= 1
        /\ \E i, j \in DOMAIN run[r].list :
              /\ i < j
              /\ run[r].list[i] \in run[r].errors
              /\ Pending(predictions[run[r].list[i]])
              /\ Resolved(predictions[run[r].list[j]])

\* ------------------------------------------------- validator: liveness
\* The cron entry '0 7 * * *' starts a validation job every day, the job runs
\* to its return, days pass, and a store call on a given prediction does not
\* fail on every attempt for ever.
Fairness ==
    /\ WF_vars(Tick)
    /\ WF_vars(StartRun("scheduled"))
    /\ WF_vars(RunStep("scheduled"))
    /\ \A p \in PredIds :
          /\ SF_vars(ReadActual("scheduled") /\ Current("scheduled") = p)
          /\ SF_vars(ReadPrevious("scheduled") /\ Current("scheduled") = p)
          /\ SF_vars(Update("scheduled") /\ Current("scheduled") = p)

LiveSpec == Spec /\ Fairness

Pos(pid) == CHOOSE k \in DOMAIN sim.list : sim.list[k] = pid
TradedAt(k) == \E t \in DOMAIN sim.trades : sim.trades[t].pid = sim.list[k]

RECURSIVE SumBefore(_, _)
SumBefore(trades, k) ==
    IF trades = <<>> THEN 0
    ELSE (IF Pos(Head(trades).pid) < k THEN Head(trades).return ELSE 0)
         + SumBefore(Tail(trades), k)

CapitalBefore(k) == StartingCapital * Nok + SumBefore(sim.trades, k)
Replaying == sim.pc \in {"loop", "done"}

\* C3 (as stated): of two qualifying predictions for the same instrument with
\* the same target date only the first is executed: one trade, not two.
C3_OneTradePerInstrumentAndDay ==
    sim.pc = "done" =>
        \A i, j \in DOMAIN sim.trades :
            (sim.trades[i].ticker = sim.trades[j].ticker
                /\ sim.trades[i].date = sim.trades[j].date) => i = j

\* C4 (as stated): the reported final capital equals the starting capital
\* plus the sum of the `return` fields of the reported trades.
C4_CapitalEqualsLedgerSum ==
    sim.pc = "done" =>
        Val(sim.result).summary.currentCapital
            = StartingCapital * 100 + SumReturns(Val(sim.result).trades)

\* C4 (amended): the running capital equals the starting capital plus the sum
\* of the unrounded net returns; the report rounds the capital and each return
\* to two decimals separately, so the reported capital differs from the
\* starting capital plus the reported returns by at most (n + 1) / 2 hundredths
\* for n trades; and at the default position size every qualifying prediction
\* yields one trade, three of them three trades.
C4_CapitalWithinRounding ==
    /\ Replaying => sim.currentCapital = StartingCapital * Nok + SumReturns(sim.trades)
    /\ sim.pc = "done" =>
          LET res == Val(sim.result)
              n == Len(res.trades)
          IN  /\ res.summary.currentCapital = ToCents(sim.currentCapital)
              /\ \A i \in 1..n : res.trades[i].return = ToCents(sim.trades[i].return)
              /\ 2 * Abs(res.summary.currentCapital
                         - (StartingCapital * 100 + SumReturns(res.trades))) <= n + 1
              /\ res.summary.totalTrades = n
              /\ sim.positionSize = DefaultPositionSize =>
                    n = Cardinality(Qualifying(predictions, sim.minConfidence))

\* C4 witness: three predictions of one instrument on three separate days gave
\* three trades, and the reported capital is not the sum over the reported
\* trades.
C4_Witness ==
    /\ sim.pc = "done" /\ Len(sim.trades) = 3
    /\ \A i, j \in DOMAIN sim.trades :
          /\ sim.trades[i].ticker = sim.trades[j].ticker
          /\ i # j => sim.trades[i].date # sim.trades[j].date
    /\ Val(sim.result).summary.currentCapital
          # StartingCapital * 100 + SumReturns(Val(sim.result).trades)

\* C5: the replay runs in ascending targetDate order, the trades come out in
\* non-decreasing date order, and the capital a decision sees is the starting
\* capital plus the returns of exactly the trades of earlier positions.
C5_ChronologicalReplay ==
    Replaying =>
        /\ \A i, j \in DOMAIN sim.list :
              i < j => predictions[sim.list[i]].targetDate
                           <= predictions[sim.list[j]].targetDate
        /\ \A i, j \in DOMAIN sim.trades :
              i < j => /\ sim.trades[i].date <= sim.trades[j].date
                       /\ Pos(sim.trades[i].pid) < Pos(sim.trades[j].pid)
        /\ \A t \in DOMAIN sim.trades : Pos(sim.trades[t].pid) < sim.idx
        /\ sim.currentCapital = CapitalBefore(sim.idx)
        /\ sim.pc = "done" =>
              \A i, j \in DOMAIN Val(sim.result).trades :
                  i < j => Val(sim.result).trades[i].date
                               <= Val(sim.result).trades[j].date

\* C5 witness: two trades whose order in the ledger is the order of their
\* dates and the reverse of the order of their ids.
C5_Witness ==
    /\ sim.pc = "done"
    /\ \E i, j \in DOMAIN sim.trades :
          /\ i < j
          /\ sim.trades[i].pid > sim.trades[j].pid
          /\ sim.trades[i].date < sim.trades[j].date

\* C6: a prediction is traded only if the capital before it is at least
\* positionSize; otherwise it is skipped, with no trade and the capital
\* unchanged, and the loop goes on to the end of the list.
C6_TradedOnlyWithCapital ==
    Replaying =>
        /\ \A k \in DOMAIN sim.list :
              /\ TradedAt(k) => CapitalBefore(k) >= sim.positionSize * Nok
              /\ (k < sim.idx /\ CapitalBefore(k) < sim.positionSize * Nok) =>
                    /\ ~TradedAt(k)
                    /\ CapitalBefore(k + 1) = CapitalBefore(k)
        /\ sim.currentCapital = CapitalBefore(sim.idx)
        /\ sim.pc = "done" => sim.idx = Len(sim.list) + 1

\* C6 witness: a replay is over in which a prediction was skipped for lack of
\* capital, with a trade before it and items after it.
C6_Witness ==
    /\ sim.pc = "done"
    /\ \E k \in DOMAIN sim.list :
          /\ 1 < k /\ k < Len(sim.list)
          /\ TradedAt(k - 1) /\ ~TradedAt(k)
          /\ CapitalBefore(k) < sim.positionSize * Nok

\* ------------------------------------------------ enrichment: the cases
\* The computation of the update's data over chosen inputs: every prediction
\* is made on day 0 for day 1, and the closes of the two days are one of the
\* histories below (baseline close, actual close).
EnrichHistories ==
    << <<100, 110>>, <<400, 401>>, <<400, 400>>, <<401, 400>>, <<30000, 30001>> >>
EnrichForecasts ==
    {[predictedDirection |-> d, confidence |-> c, predictedPrice |-> pp] :
        d \in {"up", "down"}, c \in {50, 80}, pp \in {Null, Some(401)}}
EnrichRows ==
    {PendingRow(Tracked, 0, 1, f.predictedDirection, f.confidence, f.predictedPrice) :
        f \in EnrichForecasts}

InitEnrich ==
    /\ today = 2
    /\ \E h \in DOMAIN EnrichHistories :
          prices = [c \in {Tracked} |->
                      [d \in Days |-> IF d = 0 THEN Some(EnrichHistories[h][1])
                                      ELSE IF d = 1 THEN Some(EnrichHistories[h][2])
                                      ELSE Null]]
    /\ predictions \in [PredIds -> EnrichRows]
    /\ run = [r \in Runners |-> IdleRun]
    /\ writes = [p \in PredIds |-> 0]
    /\ sim = IdleSim
    /\ Quiet

NextEnrich == Calls("scheduled")

EnrichSpec == InitEnrich /\ [][NextEnrich]_vars

\* The closes a written prediction was resolved against, off the price table.
BaselineClose(p) == Val(prices[predictions[p].companyId][predictions[p].predictionDate])
ActualClose(p) == Val(prices[predictions[p].companyId][predictions[p].targetDate])
Written(p) == writes[p] >= 1

\* C11: a resolved prediction has a non-null isCorrect equal to
\* (predictedDirection = actualDirection), with actualDirection up / down /
\* flat as the actual close is above / below / equal to the baseline close; a
\* flat outcome is incorrect for an 'up' and for a 'down' prediction; and
\* confidenceWeightedScore is the confidence when correct and 0 otherwise.
C11_IsCorrectMatchesDirection ==
    \A p \in PredIds :
        Written(p) =>
            LET row == predictions[p]
                dir == IF ActualClose(p) > BaselineClose(p) THEN "up"
                       ELSE IF ActualClose(p) < BaselineClose(p) THEN "down"
                       ELSE "flat"
            IN  /\ row.isCorrect \in {Some(TRUE), Some(FALSE)}
                /\ row.actualDirection = Some(dir)
                /\ Val(row.isCorrect) = (row.predictedDirection = dir)
                /\ dir = "flat" => row.isCorrect = Some(FALSE)
                /\ row.confidenceWeightedScore =
                       Some(IF Val(row.isCorrect) THEN 100 * row.confidence ELSE 0)

\* C11 witness: after a flat outcome an 'up' and a 'down' prediction are both
\* stored incorrect with score 0.
C11_Witness ==
    \E p, q \in PredIds :
        /\ Written(p) /\ Written(q)
        /\ ActualClose(p) = BaselineClose(p)
        /\ predictions[p].predictedDirection = "up"
        /\ predictions[q].predictedDirection = "down"
        /\ predictions[p].isCorrect = Some(FALSE)
        /\ predictions[q].isCorrect = Some(FALSE)
        /\ predictions[p].confidenceWeightedScore = Some(0)

\* C12 (as stated): a resolved prediction with confidence > 0.50 stores
\* tradingReturn = grossReturn% x confidence - 0.2 (two decimals), whatever
\* its value, 0 included; with confidence <= 0.50 it stores null.
C12_TradingReturnStored ==
    \A p \in PredIds :
        Written(p) =>
            LET row == predictions[p]
                gross == IF row.predictedDirection = "up"
                         THEN ActualClose(p) - BaselineClose(p)
                         ELSE BaselineClose(p) - ActualClose(p)
            IN  IF row.confidence > 50
                THEN row.tradingReturn =
                         Some(RoundDiv(100 * gross * row.confidence
                                           - 20 * BaselineClose(p),
                                       BaselineClose(p)))
                ELSE row.tradingReturn = Null

\* C13 (as stated): a resolved prediction with a predictedPrice stores
\* priceErrorPercent = |predictedPrice - actual| / actual x 100 (two
\* decimals), also when predictedPrice equals the actual close.
C13_PriceErrorStored ==
    \A p \in PredIds :
        (Written(p) /\ predictions[p].predictedPrice # Null) =>
            predictions[p].priceErrorPercent =
                Some(RoundDiv(10000 * Abs(Val(predictions[p].predictedPrice)
                                              - ActualClose(p)),
                              ActualClose(p)))

\* ------------------------------------------------------ getAccuracyStats
\* reduce((sum, x) => sum + x, 0) over the rows of S, on one column.
RECURSIVE SumField(_, _, _)
SumField(preds, S, field) ==
    IF S = {} THEN 0
    ELSE LET p == CHOOSE x \in S : TRUE
         IN  Val(preds[p][field]) + SumField(preds, S \ {p}, field)

\* where: { isCorrect: { not: null } } (and companyId, for a stock's rollup)
Validated(preds) == {p \in DOMAIN preds : preds[p].isCorrect # Null}
ValidatedOf(preds, c) == {p \in Validated(preds) : preds[p].companyId = c}

\* filter(p => p[field] !== null), then the mean, or 0 for no value; toFixed(2).
\* A mean exactly half-way between two hundredths is rounded away from zero
\* here; the code rounds the binary double.
AvgAllRows(preds, S, field) ==
    LET T == {p \in S : preds[p][field] # Null}
    IN  IF S = {} THEN 0 ELSE RoundDiv(SumField(preds, T, field), Cardinality(S))
AvgNonNull(preds, S, field) ==
    LET T == {p \in S : preds[p][field] # Null}
    IN  IF T = {} THEN 0 ELSE RoundDiv(SumField(preds, T, field), Cardinality(T))

\* One rollup: total, correct, accuracy, confidence-weighted accuracy and the
\* two means, over the resolved rows S. Percentages in hundredths of a percent.
Rollup(preds, S) ==
    LET correct == Cardinality({p \in S : preds[p].isCorrect = Some(TRUE)})
    IN  [total |-> Cardinality(S),
         correct |-> correct,
         accuracy |-> IF S = {} THEN 0 ELSE RoundDiv(10000 * correct, Cardinality(S)),
         confidenceWeightedAccuracy |->
             IF S = {} THEN 0
             ELSE RoundDiv(SumField(preds, S, "confidenceWeightedScore"), Cardinality(S)),
         avgPriceError |-> AvgNonNull(preds, S, "priceErrorPercent"),
         avgTradingReturn |-> AvgNonNull(preds, S, "tradingReturn")]

\* {overall, byStock}: byStock has one entry per company with a resolved row
\* (groupBy companyId). The per-model rollup repeats the per-stock one on the
\* modelId column, which the rows here do not carry.
AccuracyStats(preds) ==
    [overall |-> Rollup(preds, Validated(preds)),
     byStock |-> [c \in {preds[p].companyId : p \in Validated(preds)} |->
                     Rollup(preds, ValidatedOf(preds, c))]]

\* getAccuracyStats() against the store as it stands.
GetAccuracyStats ==
    /\ stats = Null
    /\ stats' = Some(AccuracyStats(predictions))
    /\ UNCHANGED <<today, prices, predictions, run, writes, sim,
                   recommendations, indicators, calc, batch, lastRun, lib, calendar>>

\* The stored rows: pending ones, and resolved ones with and without the two
\* optional metrics (direction, confidence, predictedPrice, baseline, actual).
StatTemplates ==
    << <<"up", 80, Some(105), 100, 110>>, <<"up", 50, Null, 100, 110>>,
       <<"down", 80, Null, 100, 110>>, <<"down", 50, Some(120), 110, 100>>,
       <<"up", 60, Some(401), 400, 401>> >>
StatRows ==
    {PendingRow(c, 0, 1, "up", 80, Null) : c \in Companies}
    \cup {Enrich(PendingRow(c, 0, 1, StatTemplates[t][1], StatTemplates[t][2],
                            StatTemplates[t][3]),
                 StatTemplates[t][5], StatTemplates[t][4]) :
             c \in Companies, t \in DOMAIN StatTemplates}

InitStats ==
    /\ today = 2
    /\ prices = [c \in {Tracked} |-> [d \in Days |-> Null]]
    /\ predictions \in [SimPredIds -> StatRows]
    /\ run = [r \in Runners |-> IdleRun]
    /\ writes = [p \in SimPredIds |-> IF Resolved(predictions[p]) THEN 1 ELSE 0]
    /\ sim = IdleSim
    /\ Quiet

NextStats == GetAccuracyStats

StatsSpec == InitStats /\ [][NextStats]_vars

\* The resolved rows a rollup is about: all of them, or one company's.
RollupRows(c) ==
    {p \in DOMAIN predictions :
        /\ predictions[p].isCorrect \in {Some(TRUE), Some(FALSE)}
        /\ c # 0 => predictions[p].companyId = c}
RollupOf(c) == IF c = 0 THEN Val(stats).overall ELSE Val(stats).byStock[c]

\* avg is the mean, rounded to the nearest unit, of the column over exactly
\* the rows of S that have it; 0 when none has.
MeanOverNonNull(avg, S, field) ==
    LET T == {p \in S : predictions[p][field] # Null}
    IN  IF T = {} THEN avg = 0
        ELSE 2 * Abs(avg * Cardinality(T) - SumField(predictions, T, field))
                 <= Cardinality(T)

\* C14: in the overall rollup and in every per-instrument rollup, the mean
\* priceErrorPercent and the mean tradingReturn are taken over exactly the
\* resolved predictions whose metric is non-null (numerator and denominator),
\* while total and correct count every resolved prediction.
C14_MeansSkipNullMetrics ==
    stats # Null =>
        /\ DOMAIN Val(stats).byStock =
               {c \in Companies : RollupRows(c) # {}}
        /\ \A c \in {0} \cup DOMAIN Val(stats).byStock :
              /\ RollupOf(c).total = Cardinality(RollupRows(c))
              /\ RollupOf(c).correct =
                     Cardinality({p \in RollupRows(c) :
                                     predictions[p].isCorrect = Some(TRUE)})
              /\ MeanOverNonNull(RollupOf(c).avgPriceError, RollupRows(c),
                                 "priceErrorPercent")
              /\ MeanOverNonNull(RollupOf(c).avgTradingReturn, RollupRows(c),
                                 "tradingReturn")

\* C14 witness: a company's rollup over resolved rows of which some, not all,
\* have a priceErrorPercent and some, not all, a tradingReturn.
C14_Witness ==
    /\ stats # Null
    /\ \E c \in DOMAIN Val(stats).byStock :
          LET S == RollupRows(c)
              E == {p \in S : predictions[p].priceErrorPercent # Null}
              R == {p \in S : predictions[p].tradingReturn # Null}
          IN  /\ E # {} /\ E # S /\ R # {} /\ R # S
              /\ Val(stats).byStock[c].total = Cardinality(S)
              /\ Val(stats).byStock[c].avgPriceError # 0
              /\ Val(stats).overall.total > Cardinality(S)

\* ------------------------------------------- simulator: the losing calls
\* Resolved predictions above the threshold, right and wrong, flat outcomes
\* included (direction, confidence, baseline close, actual close).
LossTemplates ==
    << <<"up", 60, 110, 100>>, <<"up", 70, 100, 100>>, <<"down", 80, 100, 110>>,
       <<"down", 60, 100, 100>>, <<"up", 80, 100, 110>> >>
NumLossRows == Len(LossTemplates) * Len(SimDays)
LossRowAt(k) ==
    LET d == SimDays[((k - 1) % Len(SimDays)) + 1]
        t == LossTemplates[((k - 1) \div Len(SimDays)) + 1]
    IN  Enrich(PendingRow(Tracked, d - 1, d, t[1], t[2], Null), t[4], t[3])

InitLoss ==
    /\ today = SimDays[Len(SimDays)] + 1
    /\ prices = [c \in {Tracked} |-> [d \in Days |-> Null]]
    /\ \E g \in [SimPredIds -> 1..NumLossRows] :
          /\ \A i, j \in SimPredIds : i < j => g[i] <= g[j]
          /\ predictions = [i \in SimPredIds |-> LossRowAt(g[i])]
    /\ run = [r \in Runners |-> IdleRun]
    /\ writes = [p \in SimPredIds |-> 1]
    /\ sim = IdleSim
    /\ Quiet

\* positionSize is any positive query parameter: the default and a tiny one.
LossPositionSizes == {1, DefaultPositionSize}

NextLoss ==
    \/ \E ps \in LossPositionSizes : SimStart(DefaultMinConfidence, ps)
    \/ SimStep
    \/ SimFinish

LossSpec == InitLoss /\ [][NextLoss]_vars

\* The prediction of a trade called the direction wrong.
WrongCall(t) ==
    predictions[t.pid].actualDirection # Some(predictions[t.pid].predictedDirection)

\* C15: a trade on a prediction whose predictedDirection differs from its
\* actualDirection (a flat outcome included) has a strictly negative return,
\* and that return is the formula of a correct call: positionSize x the stored
\* change in the predicted direction (long for 'up', short for 'down') minus
\* the 0.2% fee. (The report rounds it to two decimals: never above 0.)
C15_WrongCallLoses ==
    \A i \in DOMAIN sim.trades :
        LET t == sim.trades[i]
            row == predictions[t.pid]
            signed == IF row.predictedDirection = "up"
                      THEN Val(row.actualChangePercent)
                      ELSE -Val(row.actualChangePercent)
        IN  /\ t.return = sim.positionSize * signed - 20 * sim.positionSize
            /\ WrongCall(t) => t.return < 0
            /\ (WrongCall(t) /\ sim.pc = "done") =>
                   Val(sim.result).trades[i].return <= 0

\* C15 witness: a finished replay with a losing trade on a flat outcome for an
\* 'up' call, one for a 'down' call, and one on an opposite move.
C15_Witness ==
    /\ sim.pc = "done"
    /\ \E i, j, k \in DOMAIN sim.trades :
          /\ WrongCall(sim.trades[i]) /\ WrongCall(sim.trades[j])
          /\ WrongCall(sim.trades[k])
          /\ predictions[sim.trades[i].pid].actualDirection = Some("flat")
          /\ predictions[sim.trades[i].pid].predictedDirection = "up"
          /\ predictions[sim.trades[j].pid].actualDirection = Some("flat")
          /\ predictions[sim.trades[j].pid].predictedDirection = "down"
          /\ predictions[sim.trades[k].pid].actualDirection # Some("flat")
          /\ sim.trades[i].return = -Fee(sim.positionSize)
          /\ sim.trades[k].return < -Fee(sim.positionSize)

\* ---------------------------------------------------- indicator library
\* Periods of calculateAllIndicators and the defaults of calculateMACD.
RsiPeriod == 14
SmaShort == 20
SmaMid == 50
SmaLong == 200
EmaFast == 12
EmaSlow == 26
SignalPeriod == 9
BollingerPeriod == 20
StochPeriod == 14
SmoothK == 3
AtrPeriod == 14
AdxPeriod == 14

\* Where each result array holds a number rather than NaN, by 0-based index i.
SmaDefined(i, period) == ~(i < period - 1)
EmaDefined(i, period) == ~(i < period - 1)
RsiDefined(i, period) == i # 0 /\ ~(i < period)
MacdDefined(i) == EmaDefined(i, EmaFast) /\ EmaDefined(i, EmaSlow)
\* The EMA of the defined macd values, padded with NaN in front: the k-th
\* defined macd value sits at index k + EmaSlow - 1.
SignalDefined(i) == MacdDefined(i) /\ EmaDefined(i - (EmaSlow - 1), SignalPeriod)
HistogramDefined(i) == MacdDefined(i) /\ SignalDefined(i)
\* %K: the SMA(smoothK) of the defined raw values, padded in front; %D: the
\* SMA(3) of the defined %K values, padded in front.
StochKDefined(i) ==
    /\ ~(i < StochPeriod - 1)
    /\ SmaDefined(i - (StochPeriod - 1), SmoothK)
StochDDefined(i) ==
    /\ StochKDefined(i)
    /\ SmaDefined(i - (StochPeriod - 1) - (SmoothK - 1), 3)
AdxDefined(i) == i # 0 /\ ~(i < AdxPeriod * 2)

Fields ==
    {"rsi14", "macd", "macdSignal", "macdHistogram", "sma20", "sma50", "sma200",
     "ema12", "ema26", "bollingerUpper", "bollingerMiddle", "bollingerLower",
     "stochasticK", "stochasticD", "atr14", "adx14"}

FieldDefined(field, i) ==
    CASE field = "rsi14" -> RsiDefined(i, RsiPeriod)
      [] field = "macd" -> MacdDefined(i)
      [] field = "macdSignal" -> SignalDefined(i)
      [] field = "macdHistogram" -> HistogramDefined(i)
      [] field = "sma20" -> SmaDefined(i, SmaShort)
      [] field = "sma50" -> SmaDefined(i, SmaMid)
      [] field = "sma200" -> SmaDefined(i, SmaLong)
      [] field = "ema12" -> EmaDefined(i, EmaFast)
      [] field = "ema26" -> EmaDefined(i, EmaSlow)
      [] field \in {"bollingerUpper", "bollingerMiddle", "bollingerLower"} ->
             SmaDefined(i, BollingerPeriod)
      [] field = "stochasticK" -> StochKDefined(i)
      [] field = "stochasticD" -> StochDDefined(i)
      [] field = "atr14" -> EmaDefined(i, AtrPeriod)
      [] field = "adx14" -> AdxDefined(i)

\* The number an indicator yields at index i is a function of the series and
\* of i; it is kept uninterpreted, as the indicator's name with the closes up
\* to i (a PricePoint is represented by its close).
IndicatorValue(field, closes, i) == <<field, SubSeq(closes, 1, i + 1)>>

\* calculateAllIndicators: one IndicatorResult per PricePoint, a field being
\* undefined (Null) where its array holds NaN.
IndicatorResult(date, closes, i) ==
    [f \in Fields |->
        IF FieldDefined(f, i) THEN Some(IndicatorValue(f, closes, i)) ELSE Null]
    @@ [date |-> date]

\* company.stockPrices, orderBy date asc: the dates that have a PricePoint.
PriceDates(c) == SetToSeqAsc({d \in DOMAIN prices[c] : prices[c][d] # Null})
CalculateAllIndicators(c) ==
    LET dates == PriceDates(c)
        closes == [k \in DOMAIN dates |-> Val(prices[c][dates[k]])]
    IN  [k \in DOMAIN dates |-> IndicatorResult(dates[k], closes, k - 1)]

\* if (indicator.rsi14 !== undefined || indicator.sma20 !== undefined)
WorthSavingAny(snapshot) == \E f \in Fields : snapshot[f] # Null
WorthSaving(snapshot) == snapshot.rsi14 # Null \/ snapshot.sma20 # Null

\* prisma.technicalIndicator.upsert by (companyId, date): the row of that key
\* is replaced where it is, or the row is added.
Create(table, row) == Append(table, row)
Upsert(table, row) ==
    IF \E k \in DOMAIN table :
           table[k].companyId = row.companyId /\ table[k].date = row.date
    THEN [k \in DOMAIN table |->
             IF table[k].companyId = row.companyId /\ table[k].date = row.date
             THEN row ELSE table[k]]
    ELSE Append(table, row)

IndicatorRow(c, snapshot) == snapshot @@ [companyId |-> c]

\* --------------------------------------------------- indicator pipeline
\* A ticker is the id of its company; one ticker names no company.
UnknownTicker == SetMax(Companies) + 1
Tickers == Companies \cup {UnknownTicker}

\* The loop runs without a pause up to its next await: the first snapshot at
\* or after position k that passes the test, or the end of the list.
NextToSave(snapshots, k) ==
    SetMin({i \in k..Len(snapshots) : WorthSaving(snapshots[i])}
           \cup {Len(snapshots) + 1})

RowsOf(table, c) == SelectSeq(table, LAMBDA row : row.companyId = c)

\* calculateAndSaveIndicators(ticker) up to the first await's result:
\* company.findUnique with its prices, the throw for an unknown company (caught
\* by the function's own catch), calculateAllIndicators.
BeginCalc(ticker, caller) ==
    IF ticker \in Companies
    THEN [IdleCalc EXCEPT !.pc = "loop", !.caller = caller, !.ticker = ticker,
                          !.snapshots = CalculateAllIndicators(ticker),
                          !.idx = NextToSave(CalculateAllIndicators(ticker), 1)]
    ELSE [IdleCalc EXCEPT !.pc = "done", !.caller = caller, !.ticker = ticker,
                          !.result = Some([success |-> FALSE, savedCount |-> 0,
                                           error |-> "not found"])]

\* company.findUnique rejects: the catch answers with the failure.
BeginCalcFails(ticker, caller) ==
    [IdleCalc EXCEPT !.pc = "done", !.caller = caller, !.ticker = ticker,
                     !.result = Some([success |-> FALSE, savedCount |-> 0,
                                      error |-> "store"])]

\* A caller other than the batch: the indicators route, the recalculate script.
\* One indicator job runs at a time.
CalcStart(ticker) ==
    /\ calc.pc = "idle" /\ batch.pc \in {"idle", "threw"}
    /\ calc' = BeginCalc(ticker, "direct")
    /\ UNCHANGED <<today, prices, predictions, run, writes, sim, stats, recommendations, indicators, batch, lastRun, lib, calendar>>

CalcStartFails(ticker) ==
    /\ calc.pc = "idle" /\ batch.pc \in {"idle", "threw"}
    /\ calc' = BeginCalcFails(ticker, "direct")
    /\ UNCHANGED <<today, prices, predictions, run, writes, sim, stats, recommendations, indicators, batch, lastRun, lib, calendar>>

\* The upsert of the snapshot the loop stands at, savedCount++, and on to the
\* next snapshot that passes the test.
CalcSave ==
    /\ calc.pc = "loop" /\ calc.idx <= Len(calc.snapshots)
    /\ indicators' = Upsert(indicators,
                            IndicatorRow(calc.ticker, calc.snapshots[calc.idx]))
    /\ calc' = [calc EXCEPT !.idx = NextToSave(calc.snapshots, @ + 1),
                            !.savedCount = @ + 1]
    /\ UNCHANGED <<today, prices, predictions, run, writes, sim, stats, recommendations, batch, lastRun, lib, calendar>>

\* The upsert rejects: the inner catch logs, and the loop goes on.
CalcSaveFails ==
    /\ calc.pc = "loop" /\ calc.idx <= Len(calc.snapshots)
    /\ calc' = [calc EXCEPT !.idx = NextToSave(calc.snapshots, @ + 1),
                            !.failedSaves = @ + 1]
    /\ UNCHANGED <<today, prices, predictions, run, writes, sim, stats, recommendations, indicators, batch, lastRun, lib, calendar>>

\* return { success: true, savedCount }
CalcFinish ==
    /\ calc.pc = "loop" /\ calc.idx > Len(calc.snapshots)
    /\ calc' = [calc EXCEPT !.pc = "done",
                            !.result = Some([success |-> TRUE,
                                             savedCount |-> calc.savedCount,
                                             error |-> "none"])]
    /\ lastRun' = [lastRun EXCEPT ![calc.ticker] =
                      Some([savedCount |-> calc.savedCount,
                            failedSaves |-> calc.failedSaves,
                            rows |-> RowsOf(indicators, calc.ticker)])]
    /\ UNCHANGED <<today, prices, predictions, run, writes, sim, stats, recommendations, indicators, batch, lib, calendar>>

\* The direct caller has its answer.
CalcReturn ==
    /\ calc.pc = "done" /\ calc.caller = "direct"
    /\ calc' = IdleCalc
    /\ UNCHANGED <<today, prices, predictions, run, writes, sim, stats, recommendations, indicators, batch, lastRun, lib, calendar>>

\* calculateAllTrackedIndicators: company.findMany({isTracked: true}), in the
\* order the store answers.
TrackedOrders ==
    {order \in [1..Cardinality(Companies) -> Companies] :
        \A i, j \in DOMAIN order : i # j => order[i] # order[j]}

BatchStart ==
    /\ batch.pc \in {"idle", "threw"} /\ calc.pc = "idle"
    /\ \E order \in TrackedOrders :
          batch' = [IdleBatch EXCEPT !.pc = "loop", !.companies = order]
    /\ UNCHANGED <<today, prices, predictions, run, writes, sim, stats, recommendations, indicators, calc, lastRun, lib, calendar>>

\* company.findMany rejects: nothing catches it.
BatchStartThrows ==
    /\ batch.pc \in {"idle", "threw"} /\ calc.pc = "idle"
    /\ batch' = [IdleBatch EXCEPT !.pc = "threw"]
    /\ UNCHANGED <<today, prices, predictions, run, writes, sim, stats, recommendations, indicators, calc, lastRun, lib, calendar>>

\* await this.calculateAndSaveIndicators(company.ticker): the call is made.
BatchCall ==
    /\ batch.pc = "loop" /\ batch.idx <= Len(batch.companies)
    /\ calc.pc = "idle"
    /\ \/ calc' = BeginCalc(batch.companies[batch.idx], "batch")
       \/ calc' = BeginCalcFails(batch.companies[batch.idx], "batch")
    /\ batch' = [batch EXCEPT !.pc = "await"]
    /\ UNCHANGED <<today, prices, predictions, run, writes, sim, stats, recommendations, indicators, lastRun, lib, calendar>>

\* results.push({ticker, savedCount, success, error}), successful++ or
\* failed++, and on to the next company.
CollectOrStop(rec, ticker, result) ==
    [rec EXCEPT
        !.pc = "loop",
        !.idx = IF result.success THEN @ + 1 ELSE Len(rec.companies) + 1,
        !.results = Append(@, [ticker |-> ticker, savedCount |-> result.savedCount,
                               success |-> result.success, error |-> result.error]),
        !.successful = IF result.success THEN @ + 1 ELSE @,
        !.failed = IF result.success THEN @ ELSE @ + 1]
Collect(rec, ticker, result) ==
    [rec EXCEPT
        !.pc = "loop", !.idx = @ + 1,
        !.results = Append(@, [ticker |-> ticker, savedCount |-> result.savedCount,
                               success |-> result.success, error |-> result.error]),
        !.successful = IF result.success THEN @ + 1 ELSE @,
        !.failed = IF result.success THEN @ ELSE @ + 1]

\* The call has answered: results.push and the two counters.
BatchCollect ==
    /\ batch.pc = "await" /\ calc.pc = "done" /\ calc.caller = "batch"
    /\ batch' = Collect(batch, calc.ticker, Val(calc.result))
    /\ calc' = IdleCalc
    /\ UNCHANGED <<today, prices, predictions, run, writes, sim, stats, recommendations, indicators, lastRun, lib, calendar>>

\* return { total, successful, failed, details }
BatchFinish ==
    /\ batch.pc = "loop" /\ batch.idx > Len(batch.companies)
    /\ batch' = [batch EXCEPT !.pc = "done",
                              !.result = Some([total |-> Len(batch.companies),
                                               successful |-> batch.successful,
                                               failed |-> batch.failed,
                                               details |-> batch.results])]
    /\ UNCHANGED <<today, prices, predictions, run, writes, sim, stats, recommendations, indicators, calc, lastRun, lib, calendar>>

BatchReturn ==
    /\ batch.pc = "done"
    /\ batch' = IdleBatch
    /\ UNCHANGED <<today, prices, predictions, run, writes, sim, stats, recommendations, indicators, calc, lastRun, lib, calendar>>

\* The price histories: per company one of these lengths, day 0 onwards.
HistoryLengths == {0, 13, 16}
HistDays == 0..(SetMax(HistoryLengths) - 1)

InitIndicators ==
    /\ today = SetMax(HistoryLengths)
    /\ \E len \in [Companies -> HistoryLengths] :
          prices = [c \in Companies |->
                      [d \in HistDays |->
                          IF d < len[c] THEN Some(MarketClose(d)) ELSE Null]]
    /\ predictions = [p \in PredIds |-> PendingRow(Tracked, 0, 1, "up", 80, Null)]
    /\ run = [r \in Runners |-> IdleRun]
    /\ writes = [p \in PredIds |-> 0]
    /\ sim = IdleSim
    /\ Quiet

NextIndicators ==
    \/ \E ticker \in Tickers : CalcStart(ticker) \/ CalcStartFails(ticker)
    \/ CalcSave \/ CalcSaveFails \/ CalcFinish \/ CalcReturn
    \/ BatchStart \/ BatchStartThrows \/ BatchCall \/ BatchCollect
    \/ BatchFinish \/ BatchReturn

IndicatorSpec == InitIndicators /\ [][NextIndicators]_vars

\* ---------------------------------------- indicator pipeline: properties
HasRow(c, date) ==
    \E k \in DOMAIN indicators :
        indicators[k].companyId = c /\ indicators[k].date = date
CalcDone == calc.pc = "done"
CalcClean ==
    /\ CalcDone /\ calc.ticker \in Companies
    /\ Val(calc.result).error # "store" /\ calc.failedSaves = 0

\* C16 (as stated): a call without a failed store call upserts a snapshot for
\* every date whose IndicatorSnapshot has at least one defined field and for
\* no other date, and savedCount is the number of such snapshots.
C16_SavesEveryDefinedSnapshot ==
    CalcClean =>
        /\ \A k \in DOMAIN calc.snapshots :
              WorthSavingAny(calc.snapshots[k])
                  <=> HasRow(calc.ticker, calc.snapshots[k].date)
        /\ Val(calc.result).savedCount =
               Cardinality({k \in DOMAIN calc.snapshots :
                               WorthSavingAny(calc.snapshots[k])})

\* C17: a run that ends without a failed upsert, after an earlier such run on
\* the same price history, leaves the instrument's stored snapshots exactly as
\* the earlier run left them (same keys, same values, same order, none twice)
\* and returns the same savedCount.
C17_RerunIsIdempotent ==
    /\ [](\A i, j \in DOMAIN indicators :
              (indicators[i].companyId = indicators[j].companyId
                  /\ indicators[i].date = indicators[j].date) => i = j)
    /\ [][ ( /\ calc.pc = "loop" /\ calc'.pc = "done"
             /\ calc.failedSaves = 0
             /\ lastRun[calc.ticker] # Null
             /\ Val(lastRun[calc.ticker]).failedSaves = 0 ) =>
               /\ RowsOf(indicators', calc.ticker) = Val(lastRun[calc.ticker]).rows
               /\ Val(calc'.result).savedCount = Val(lastRun[calc.ticker]).savedCount
               /\ Val(calc'.result).success ]_vars

\* C17 witness: a second run on an instrument is at its end, neither run had
\* a failed upsert, and both saved the same, non-zero number of snapshots.
C17_Witness ==
    /\ calc.pc = "loop" /\ calc.idx > Len(calc.snapshots)
    /\ calc.failedSaves = 0 /\ calc.savedCount >= 2
    /\ lastRun[calc.ticker] # Null
    /\ Val(lastRun[calc.ticker]).failedSaves = 0
    /\ Val(lastRun[calc.ticker]).savedCount = calc.savedCount
    /\ Len(RowsOf(indicators, calc.ticker)) = calc.savedCount

\* C18 (as stated): for an unknown instrument the call answers
\* {success: false, savedCount: 0, error} and writes nothing; for a known one
\* with a history shorter than 200 points it succeeds and saves the indicators
\* that are computable: every defined field of every date is in the store.
C18_UnknownFailsShortHistorySaves ==
    /\ (CalcDone /\ calc.ticker = UnknownTicker) =>
          /\ Val(calc.result).success = FALSE
          /\ Val(calc.result).savedCount = 0
          /\ Val(calc.result).error # "none"
          /\ ~\E k \in DOMAIN indicators : indicators[k].companyId = UnknownTicker
    /\ CalcClean =>
          /\ Len(calc.snapshots) < SmaLong
          /\ Val(calc.result).success
          /\ \A k \in DOMAIN calc.snapshots :
                WorthSavingAny(calc.snapshots[k]) =>
                    HasRow(calc.ticker, calc.snapshots[k].date)

\* C19: the batch answers with one detail entry per tracked instrument, in
\* processing order, with total = successful + failed; and an instrument that
\* succeeded was computed and saved whatever happened to those before it.
C19_BatchSurvivesFailures ==
    /\ batch.pc \in {"loop", "await", "done"} =>
          /\ \A i \in DOMAIN batch.results :
                batch.results[i].ticker = batch.companies[i]
          /\ Len(batch.results) = batch.idx - 1
          /\ batch.idx - 1 = batch.successful + batch.failed
          /\ batch.failed = Cardinality({i \in DOMAIN batch.results :
                                            ~batch.results[i].success})
    /\ batch.pc = "done" =>
          LET result == Val(batch.result)
          IN  /\ result.total = Cardinality(Companies)
              /\ Len(result.details) = result.total
              /\ {result.details[i].ticker : i \in DOMAIN result.details} = Companies
              /\ result.total = result.successful + result.failed
              /\ \A i \in DOMAIN result.details :
                    result.details[i].success =>
                        /\ lastRun[result.details[i].ticker] # Null
                        /\ result.details[i].savedCount =
                               Len(RowsOf(indicators, result.details[i].ticker))
                               \/ Val(lastRun[result.details[i].ticker]).failedSaves > 0

\* C19 witness: a finished batch whose first instrument failed and whose
\* second was computed and saved.
C19_Witness ==
    /\ batch.pc = "done"
    /\ LET details == Val(batch.result).details
       IN  /\ Len(details) = 2
           /\ ~details[1].success /\ details[1].savedCount = 0
           /\ details[2].success /\ details[2].savedCount >= 2
           /\ Len(RowsOf(indicators, details[2].ticker)) = details[2].savedCount
           /\ RowsOf(indicators, details[1].ticker) = <<>>
    /\ Val(batch.result).failed = 1 /\ Val(batch.result).successful = 1

\* ------------------------------------------- getTradingRecommendations
\* where: { targetDate: { gte: new Date() }, confidence: { gte: minConfidence },
\* isCorrect: null }. new Date() is the instant of the call: a prediction dated
\* after today passes, one dated before today does not, and one dated today
\* passes or not with the time of day (sameDay: those that pass).
ActiveAnyStatus(preds, now, minConfidence, sameDay) ==
    {p \in DOMAIN preds :
        /\ preds[p].targetDate > now \/ (preds[p].targetDate = now /\ p \in sameDay)
        /\ preds[p].confidence >= minConfidence}
Active(preds, now, minConfidence, sameDay) ==
    {p \in DOMAIN preds :
        /\ preds[p].targetDate > now \/ (preds[p].targetDate = now /\ p \in sameDay)
        /\ preds[p].confidence >= minConfidence
        /\ preds[p].isCorrect = Null}

\* orderBy: { confidence: 'desc' }: every order of S descending in confidence.
RECURSIVE ByConfidenceDesc(_, _)
ByConfidenceDesc(preds, S) ==
    IF S = {} THEN {<<>>}
    ELSE LET firsts == {p \in S : \A q \in S : preds[p].confidence >= preds[q].confidence}
         IN  UNION {{<<p>> \o t : t \in ByConfidenceDesc(preds, S \ {p})} : p \in firsts}

\* company.stockPrices, date desc, take 1: the latest close, or 0.
CurrentPrice(c) ==
    LET dates == {d \in DOMAIN prices[c] : prices[c][d] # Null}
    IN  IF dates = {} THEN 0 ELSE Val(prices[c][SetMax(dates)])

\* The entry for one prediction: the confidence tiers 0.70 and 0.60.
RecommendAlwaysTrade(p, row) ==
    [pid |-> p, ticker |-> row.companyId,
     recommendation |-> IF row.predictedDirection = "up" THEN "BUY" ELSE "SHORT",
     confidence |-> row.confidence,
     predictedDirection |-> row.predictedDirection,
     predictedPrice |-> IF row.predictedPrice = Null THEN 0 ELSE Val(row.predictedPrice),
     currentPrice |-> CurrentPrice(row.companyId),
     targetDate |-> row.targetDate,
     reasoning |-> IF row.confidence >= 70 THEN "High confidence: strong signal"
                   ELSE "Moderate confidence: smaller position"]
Recommend(p, row) ==
    [pid |-> p, ticker |-> row.companyId,
     recommendation |->
         IF row.confidence >= 70 \/ row.confidence >= 60
         THEN IF row.predictedDirection = "up" THEN "BUY" ELSE "SHORT"
         ELSE "HOLD",
     confidence |-> row.confidence,
     predictedDirection |-> row.predictedDirection,
     predictedPrice |-> IF row.predictedPrice = Null THEN 0 ELSE Val(row.predictedPrice),
     currentPrice |-> CurrentPrice(row.companyId),
     targetDate |-> row.targetDate,
     reasoning |-> IF row.confidence >= 70 THEN "High confidence: strong signal"
                   ELSE IF row.confidence >= 60
                   THEN "Moderate confidence: smaller position"
                   ELSE "Low confidence: wait"]

\* getTradingRecommendations(minConfidence): one findMany, one map.
GetTradingRecommendations(minConfidence) ==
    /\ recommendations = Null
    /\ \E sameDay \in SUBSET {p \in DOMAIN predictions : predictions[p].targetDate = today} :
       \E order \in ByConfidenceDesc(predictions,
                                     Active(predictions, today, minConfidence, sameDay)) :
          recommendations' =
              Some([minConfidence |-> minConfidence,
                    recs |-> [i \in DOMAIN order |->
                                 Recommend(order[i], predictions[order[i]])]])
    /\ UNCHANGED <<today, prices, predictions, run, writes, sim, stats,
                   indicators, calc, batch, lastRun, lib, calendar>>

\* The stored predictions: pending ones dated before, on and after today, and
\* resolved ones, which are dated today or before.
RecToday == SetMin(Days) + 1
RecRows ==
    {PendingRow(Tracked, 0, td, d, c, Some(110)) :
        td \in Days, d \in {"up", "down"}, c \in {50, 60, 70}}
    \cup {Enrich(PendingRow(Tracked, 0, td, d, c, Some(110)), 110, 100) :
             td \in {t \in Days : t <= RecToday}, d \in {"up", "down"}, c \in {50, 60, 70}}

\* minConfidence is a query parameter: the default 0.60, and one below it.
MinConfidences == {50, 60}

InitRec ==
    /\ today = RecToday
    /\ prices = [c \in {Tracked} |->
                    [d \in Days |-> IF d <= RecToday THEN Some(MarketClose(d)) ELSE Null]]
    /\ predictions \in [PredIds -> RecRows]
    /\ run = [r \in Runners |-> IdleRun]
    /\ writes = [p \in PredIds |-> IF Resolved(predictions[p]) THEN 1 ELSE 0]
    /\ sim = IdleSim
    /\ Quiet

NextRec == \E minConfidence \in MinConfidences : GetTradingRecommendations(minConfidence)

RecSpec == InitRec /\ [][NextRec]_vars

\* C20: every recommendation is for a prediction that is unresolved, dated
\* today or later, and at or above minConfidence (every such prediction dated
\* after today has one); it is BUY for 'up' and SHORT for 'down' at
\* confidence >= 0.60, with the strong rationale at >= 0.70 and the moderate
\* one below, and HOLD under 0.60; and the call changes no stored prediction,
\* no price and no ledger.
C20_RecommendationsReadOnly ==
    /\ [](recommendations # Null =>
            LET recs == Val(recommendations).recs
                minConfidence == Val(recommendations).minConfidence
            IN  /\ \A i \in DOMAIN recs :
                      LET row == predictions[recs[i].pid]
                      IN  /\ row.isCorrect = Null
                          /\ row.targetDate >= today
                          /\ row.confidence >= minConfidence
                          /\ recs[i].confidence = row.confidence
                          /\ recs[i].recommendation =
                                 (IF row.confidence < 60 THEN "HOLD"
                                  ELSE IF row.predictedDirection = "up" THEN "BUY"
                                  ELSE "SHORT")
                          /\ recs[i].reasoning =
                                 (IF row.confidence >= 70
                                  THEN "High confidence: strong signal"
                                  ELSE IF row.confidence >= 60
                                  THEN "Moderate confidence: smaller position"
                                  ELSE "Low confidence: wait")
                /\ \A i, j \in DOMAIN recs : recs[i].pid = recs[j].pid => i = j
                /\ \A p \in DOMAIN predictions :
                      ( /\ predictions[p].isCorrect = Null
                        /\ predictions[p].targetDate > today
                        /\ predictions[p].confidence >= minConfidence ) =>
                          \E i \in DOMAIN recs : recs[i].pid = p)
    /\ [][ recommendations' # recommendations =>
             /\ predictions' = predictions /\ writes' = writes
             /\ prices' = prices /\ sim' = sim ]_vars

\* C20 witness: an answer with a HOLD and a BUY or SHORT.
C20_Witness ==
    /\ recommendations # Null
    /\ \E i, j \in DOMAIN Val(recommendations).recs :
          /\ Val(recommendations).recs[i].recommendation \in {"BUY", "SHORT"}
          /\ Val(recommendations).recs[j].recommendation = "HOLD"

\* ------------------------------------------------- the indicator library
\* Numbers are in thousandths; a division rounds to the nearest thousandth.
\* NaN is Null, a number v is Some(v); array index i is position i + 1.
Fix == 10 * 100

RECURSIVE SumSeq(_)
SumSeq(s) == IF s = <<>> THEN 0 ELSE Head(s) + SumSeq(Tail(s))

\* array.slice(from, to): the indices from .. to - 1.
Slice(s, from, to) == SubSeq(s, from + 1, to)

\* array.filter(v => !isNaN(v)), and the left padding that realigns it.
Defined(s) == [j \in 1..Len(SelectSeq(s, LAMBDA x : x # Null)) |->
                  Val(SelectSeq(s, LAMBDA x : x # Null)[j])]
PadLeft(s, length) == [j \in 1..(length - Len(s)) |-> Null] \o s

\* calculateSMA
CalculateSMALate(values, period) ==
    [j \in 1..Len(values) |->
        LET i == j - 1
        IN  IF i < period THEN Null
            ELSE Some(RoundDiv(SumSeq(Slice(values, i - period + 1, i + 1)), period))]
CalculateSMA(values, period) ==
    [j \in 1..Len(values) |->
        LET i == j - 1
        IN  IF i < period - 1 THEN Null
            ELSE Some(RoundDiv(SumSeq(Slice(values, i - period + 1, i + 1)), period))]

\* calculateEMA: the loop of lines 70-79, ema being the array built so far.
RECURSIVE EmaLoop(_, _, _)
EmaLoop(values, period, ema) ==
    IF Len(ema) = Len(values) THEN ema
    ELSE LET i == Len(ema)
             firstEMA == RoundDiv(SumSeq(Slice(values, 0, SetMin({period, Len(values)}))),
                                  period)
             value == IF i < period - 1 THEN Null
                      ELSE IF i = period - 1 THEN Some(firstEMA)
                      ELSE Some(RoundDiv((values[i + 1] - Val(ema[i])) * 2, period + 1)
                                + Val(ema[i]))
         IN  EmaLoop(values, period, Append(ema, value))
CalculateEMA(values, period) == EmaLoop(values, period, <<>>)

\* calculateRSI: gains[i] and losses[i], and the value pushed for the averages.
Gain(values, i) ==
    IF i = 0 THEN 0
    ELSE IF values[i + 1] - values[i] > 0 THEN values[i + 1] - values[i] ELSE 0
Loss(values, i) ==
    IF i = 0 THEN 0
    ELSE IF values[i + 1] - values[i] < 0 THEN -(values[i + 1] - values[i]) ELSE 0
RsiValueNoGainTest(avgGain, avgLoss) ==
    IF avgLoss = 0 THEN 50 * Fix
    ELSE LET rs == RoundDiv(avgGain * Fix, avgLoss)
         IN  100 * Fix - RoundDiv(100 * Fix * Fix, Fix + rs)
RsiValue(avgGain, avgLoss) ==
    IF avgLoss = 0 THEN (IF avgGain = 0 THEN 50 * Fix ELSE 100 * Fix)
    ELSE LET rs == RoundDiv(avgGain * Fix, avgLoss)
         IN  100 * Fix - RoundDiv(100 * Fix * Fix, Fix + rs)

RECURSIVE RsiLoop(_, _, _, _, _)
RsiLoop(values, period, rsi, avgGain, avgLoss) ==
    IF Len(rsi) = Len(values) THEN rsi
    ELSE LET i == Len(rsi)
             gains == [j \in 1..(i + 1) |-> Gain(values, j - 1)]
             losses == [j \in 1..(i + 1) |-> Loss(values, j - 1)]
             g == IF i = 0 \/ i < period THEN avgGain
                  ELSE IF i = period
                  THEN RoundDiv(SumSeq(Slice(gains, 1, period + 1)), period)
                  ELSE RoundDiv(avgGain * (period - 1) + gains[i + 1], period)
             l == IF i = 0 \/ i < period THEN avgLoss
                  ELSE IF i = period
                  THEN RoundDiv(SumSeq(Slice(losses, 1, period + 1)), period)
                  ELSE RoundDiv(avgLoss * (period - 1) + losses[i + 1], period)
             value == IF i = 0 \/ i < period THEN Null ELSE Some(RsiValue(g, l))
         IN  RsiLoop(values, period, Append(rsi, value), g, l)
CalculateRSI(values, period) == RsiLoop(values, period, <<>>, 0, 0)

\* calculateMACD
CalculateMACDPadRight(values, fastPeriod, slowPeriod, signalPeriod) ==
    LET ema12 == CalculateEMA(values, fastPeriod)
        ema26 == CalculateEMA(values, slowPeriod)
        macd == [j \in 1..Len(values) |->
                    IF ema12[j] = Null \/ ema26[j] = Null THEN Null
                    ELSE Some(Val(ema12[j]) - Val(ema26[j]))]
        signal == CalculateEMA(Defined(macd), signalPeriod)
        paddedSignal == signal \o [j \in 1..(Len(macd) - Len(signal)) |-> Null]
    IN  [macd |-> macd,
         signal |-> paddedSignal,
         histogram |-> [j \in 1..Len(macd) |->
                           IF macd[j] = Null \/ paddedSignal[j] = Null THEN Null
                           ELSE Some(Val(macd[j]) - Val(paddedSignal[j]))]]
CalculateMACD(values, fastPeriod, slowPeriod, signalPeriod) ==
    LET ema12 == CalculateEMA(values, fastPeriod)
        ema26 == CalculateEMA(values, slowPeriod)
        macd == [j \in 1..Len(values) |->
                    IF ema12[j] = Null \/ ema26[j] = Null THEN Null
                    ELSE Some(Val(ema12[j]) - Val(ema26[j]))]
        signal == CalculateEMA(Defined(macd), signalPeriod)
        paddedSignal == PadLeft(signal, Len(macd))
    IN  [macd |-> macd,
         signal |-> paddedSignal,
         histogram |-> [j \in 1..Len(macd) |->
                           IF macd[j] = Null \/ paddedSignal[j] = Null THEN Null
                           ELSE Some(Val(macd[j]) - Val(paddedSignal[j]))]]

\* True range at index i (calculateATR, calculateADX).
Max3(a, b, c) == SetMax({a, b, c})
TrueRange(highs, lows, closes, i) ==
    IF i = 0 THEN highs[1] - lows[1]
    ELSE Max3(highs[i + 1] - lows[i + 1],
              Abs(highs[i + 1] - closes[i]),
              Abs(lows[i + 1] - closes[i]))

\* calculateATR: the EMA of the true ranges.
CalculateATR(highs, lows, closes, period) ==
    CalculateEMA([j \in 1..Len(closes) |-> TrueRange(highs, lows, closes, j - 1)], period)

\* calculateADX: directional movement at index i, and the DX pushed at i.
PlusDM(highs, lows, i) ==
    IF i = 0 THEN 0
    ELSE LET highDiff == highs[i + 1] - highs[i]
             lowDiff == lows[i] - lows[i + 1]
         IN  IF highDiff > lowDiff /\ highDiff > 0 THEN highDiff ELSE 0
MinusDM(highs, lows, i) ==
    IF i = 0 THEN 0
    ELSE LET highDiff == highs[i + 1] - highs[i]
             lowDiff == lows[i] - lows[i + 1]
         IN  IF lowDiff > highDiff /\ lowDiff > 0 THEN lowDiff ELSE 0
DX(highs, lows, closes, period, i) ==
    LET from == i - period + 1
        avgPlusDM == RoundDiv(SumSeq([j \in 1..period |-> PlusDM(highs, lows, from + j - 1)]),
                              period)
        avgMinusDM == RoundDiv(SumSeq([j \in 1..period |-> MinusDM(highs, lows, from + j - 1)]),
                               period)
        avgTR == RoundDiv(SumSeq([j \in 1..period |->
                                     TrueRange(highs, lows, closes, from + j - 1)]), period)
        plusDI == IF avgTR = 0 THEN 0 ELSE RoundDiv(avgPlusDM * Fix, avgTR) * 100
        minusDI == IF avgTR = 0 THEN 0 ELSE RoundDiv(avgMinusDM * Fix, avgTR) * 100
    IN  IF plusDI + minusDI = 0 THEN 0
        ELSE RoundDiv(Abs(plusDI - minusDI) * Fix, plusDI + minusDI) * 100
CalculateADX(highs, lows, closes, period) ==
    [j \in 1..Len(closes) |->
        LET i == j - 1
        IN  IF i = 0 \/ i < period * 2 THEN Null
            ELSE Some(DX(highs, lows, closes, period, i))]

\* Math.sqrt, to the thousandth below: the r with r * r <= n < (r + 1) * (r + 1).
RECURSIVE SqrtBetween(_, _, _)
SqrtBetween(n, lo, hi) ==
    IF lo = hi THEN lo
    ELSE LET mid == (lo + hi + 1) \div 2
         IN  IF mid * mid <= n THEN SqrtBetween(n, mid, hi) ELSE SqrtBetween(n, lo, mid - 1)
Sqrt(n) == SqrtBetween(n, 0, 40 * Fix)

RECURSIVE SumSquares(_, _)
SumSquares(s, mean) ==
    IF s = <<>> THEN 0
    ELSE (Head(s) - mean) * (Head(s) - mean) + SumSquares(Tail(s), mean)

\* calculateBollingerBands
CalculateBollingerBands(values, period, stdDev) ==
    LET middle == CalculateSMA(values, period)
        sd(i) == Sqrt(RoundDiv(SumSquares(Slice(values, i - period + 1, i + 1),
                                          Val(middle[i + 1])), period))
    IN  [upper |-> [j \in 1..Len(values) |->
                       IF j - 1 < period - 1 THEN Null
                       ELSE Some(Val(middle[j]) + stdDev * sd(j - 1))],
         middle |-> middle,
         lower |-> [j \in 1..Len(values) |->
                       IF j - 1 < period - 1 THEN Null
                       ELSE Some(Val(middle[j]) - stdDev * sd(j - 1))]]

\* calculateStochastic
StochValue(highs, lows, closes, period, i) ==
    LET highestHigh == SetMax({highs[j] : j \in (i - period + 2)..(i + 1)})
        lowestLow == SetMin({lows[j] : j \in (i - period + 2)..(i + 1)})
    IN  IF lowestLow = highestHigh THEN 50 * Fix
        ELSE RoundDiv((closes[i + 1] - lowestLow) * Fix, highestHigh - lowestLow) * 100
CalculateStochasticUnpadded(highs, lows, closes, period, smoothK) ==
    LET k == [j \in 1..Len(closes) |->
                 IF j - 1 < period - 1 THEN Null
                 ELSE Some(StochValue(highs, lows, closes, period, j - 1))]
        smoothedK == CalculateSMA(Defined(k), smoothK)
        paddedK == smoothedK \o [j \in 1..(Len(k) - Len(smoothedK)) |-> Null]
        d == CalculateSMA(Defined(paddedK), 3)
        paddedD == d \o [j \in 1..(Len(paddedK) - Len(d)) |-> Null]
    IN  [k |-> paddedK, d |-> paddedD]
CalculateStochastic(highs, lows, closes, period, smoothK) ==
    LET k == [j \in 1..Len(closes) |->
                 IF j - 1 < period - 1 THEN Null
                 ELSE Some(StochValue(highs, lows, closes, period, j - 1))]
        smoothedK == CalculateSMA(Defined(k), smoothK)
        paddedK == PadLeft(smoothedK, Len(k))
        d == CalculateSMA(Defined(paddedK), 3)
        paddedD == PadLeft(d, Len(paddedK))
    IN  [k |-> paddedK, d |-> paddedD]

\* calculateAllIndicators on a series of PricePoints: per index, every field,
\* Null where the library gave NaN.
AllIndicators(priceData) ==
    LET closes == [j \in 1..Len(priceData) |-> priceData[j].close]
        highs == [j \in 1..Len(priceData) |-> priceData[j].high]
        lows == [j \in 1..Len(priceData) |-> priceData[j].low]
        rsi14 == CalculateRSI(closes, RsiPeriod)
        macdData == CalculateMACD(closes, EmaFast, EmaSlow, SignalPeriod)
        sma20 == CalculateSMA(closes, SmaShort)
        sma50 == CalculateSMA(closes, SmaMid)
        sma200 == CalculateSMA(closes, SmaLong)
        ema12 == CalculateEMA(closes, EmaFast)
        ema26 == CalculateEMA(closes, EmaSlow)
        bollinger == CalculateBollingerBands(closes, BollingerPeriod, 2)
        stochastic == CalculateStochastic(highs, lows, closes, StochPeriod, SmoothK)
        atr14 == CalculateATR(highs, lows, closes, AtrPeriod)
        adx14 == CalculateADX(highs, lows, closes, AdxPeriod)
    IN  [j \in 1..Len(priceData) |->
            [rsi14 |-> rsi14[j], macd |-> macdData.macd[j],
             macdSignal |-> macdData.signal[j], macdHistogram |-> macdData.histogram[j],
             sma20 |-> sma20[j], sma50 |-> sma50[j], sma200 |-> sma200[j],
             ema12 |-> ema12[j], ema26 |-> ema26[j],
             bollingerUpper |-> bollinger.upper[j], bollingerMiddle |-> bollinger.middle[j],
             bollingerLower |-> bollinger.lower[j],
             stochasticK |-> stochastic.k[j], stochasticD |-> stochastic.d[j],
             atr14 |-> atr14[j], adx14 |-> adx14[j]]]

\* ------------------------------------------- calls of the indicator library
\* One call of a library function on the series in lib.priceData.
Closes(priceData) == [j \in 1..Len(priceData) |-> priceData[j].close]
Highs(priceData) == [j \in 1..Len(priceData) |-> priceData[j].high]
Lows(priceData) == [j \in 1..Len(priceData) |-> priceData[j].low]

Answer(fn, args, out) ==
    /\ lib.call = Null
    /\ lib' = [lib EXCEPT !.call = Some([fn |-> fn, args |-> args, out |-> out])]
    /\ UNCHANGED <<today, prices, predictions, run, writes, sim, stats,
                   recommendations, indicators, calc, batch, lastRun, calendar>>

CallSMA(period) ==
    Answer("calculateSMA", <<period>>, CalculateSMA(Closes(lib.priceData), period))
CallEMA(period) ==
    Answer("calculateEMA", <<period>>, CalculateEMA(Closes(lib.priceData), period))
CallRSI(period) ==
    Answer("calculateRSI", <<period>>, CalculateRSI(Closes(lib.priceData), period))
CallADX(period) ==
    Answer("calculateADX", <<period>>,
           CalculateADX(Highs(lib.priceData), Lows(lib.priceData),
                        Closes(lib.priceData), period))
CallMACD(fast, slow, signal) ==
    Answer("calculateMACD", <<fast, slow, signal>>,
           CalculateMACD(Closes(lib.priceData), fast, slow, signal))

\* The series: up to MaxLen PricePoints, closes of 10, 11 and 13 and a daily
\* range of 0 or 2 around the close.
MaxLen == 5
Periods == 1..3
MacdPeriods == {<<1, 2, 2>>, <<2, 3, 2>>, <<1, 3, 1>>}
ClosePrices == {10 * Fix, 11 * Fix, 13 * Fix}
Series ==
    UNION {UNION {[1..n -> {[close |-> c, high |-> c + spread * Fix,
                             low |-> c - spread * Fix] : c \in ClosePrices}]
                  : spread \in {0, 1}} : n \in 0..MaxLen}

InitLib ==
    /\ today = 0
    /\ prices = [c \in {Tracked} |-> [d \in Days |-> Null]]
    /\ predictions = <<>>
    /\ run = [r \in Runners |-> IdleRun]
    /\ writes = <<>>
    /\ sim = IdleSim
    /\ QuietServices
    /\ calendar = <<>>
    /\ \E priceData \in Series : lib = [priceData |-> priceData, call |-> Null]

NextLib ==
    \/ \E period \in Periods : CallSMA(period)
    \/ \E period \in Periods : CallEMA(period)
    \/ \E period \in Periods : CallRSI(period)
    \/ \E period \in Periods : CallADX(period)
    \/ \E periods \in MacdPeriods : CallMACD(periods[1], periods[2], periods[3])

LibSpec == InitLib /\ [][NextLib]_vars

\* The answer of the call of fn, when there is one.
Called(fn) == lib # <<>> /\ lib.call # Null /\ Val(lib.call).fn = fn
Out == Val(lib.call).out
Arg(k) == Val(lib.call).args[k]
InputLen == Len(lib.priceData)

\* C21: calculateSMA returns one entry per price; the defined ones are those
\* at indices >= period - 1, max(0, L - period + 1) of them, and each is the
\* mean of the `period` closes ending at its index (to the nearest thousandth).
C21_SmaIsTrailingMean ==
    Called("calculateSMA") =>
        LET period == Arg(1)
            closes == Closes(lib.priceData)
            defined == {i \in 0..(InputLen - 1) : Out[i + 1] # Null}
        IN  /\ Len(Out) = InputLen
            /\ defined = {i \in 0..(InputLen - 1) : i >= period - 1}
            /\ Cardinality(defined) =
                   (IF InputLen - period + 1 > 0 THEN InputLen - period + 1 ELSE 0)
            /\ \A i \in defined :
                  LET window == {k \in 0..(InputLen - 1) : i - period < k /\ k <= i}
                      total == SumSeq([j \in 1..period |-> closes[i - period + 1 + j]])
                  IN  /\ Cardinality(window) = period
                      /\ 2 * Abs(Val(Out[i + 1]) * period - total) <= period

\* C21 witness: four closes and period 3: two means, of different windows.
C21_Witness ==
    /\ Called("calculateSMA")
    /\ Arg(1) = 3 /\ InputLen = 4
    /\ Out[3] # Null /\ Out[4] # Null /\ Out[3] # Out[4]

\* The price changes at indices from .. to are all gains, or all losses.
AllGains(closes, from, to) == \A k \in from..to : closes[k + 1] > closes[k]
AllLosses(closes, from, to) == \A k \in from..to : closes[k + 1] < closes[k]

\* C22, as claimed: every defined RSI value is in [0, 100]; it is 100 where
\* the last `period` price changes are all gains and 0 where they are all
\* losses.
C22_RsiOfTrailingWindow ==
    Called("calculateRSI") =>
        \A i \in 0..(InputLen - 1) :
            Out[i + 1] # Null =>
                /\ 0 <= Val(Out[i + 1]) /\ Val(Out[i + 1]) <= 100 * Fix
                /\ AllGains(Closes(lib.priceData), i - Arg(1) + 1, i) =>
                       Val(Out[i + 1]) = 100 * Fix
                /\ AllLosses(Closes(lib.priceData), i - Arg(1) + 1, i) =>
                       Val(Out[i + 1]) = 0

\* C22, amended: every defined RSI value is in [0, 100]; it is 100 where all
\* the price changes up to that index are gains and 0 where all are losses,
\* which at the first defined index, `period`, are the last `period` changes.
C22_RsiOfWholeHistory ==
    Called("calculateRSI") =>
        \A i \in 0..(InputLen - 1) :
            /\ Out[i + 1] # Null <=> i >= Arg(1)
            /\ Out[i + 1] # Null =>
                /\ 0 <= Val(Out[i + 1]) /\ Val(Out[i + 1]) <= 100 * Fix
                /\ AllGains(Closes(lib.priceData), 1, i) => Val(Out[i + 1]) = 100 * Fix
                /\ AllLosses(Closes(lib.priceData), 1, i) => Val(Out[i + 1]) = 0

\* C22 witness: an RSI strictly between 0 and 100 past the first defined
\* index, after one of 100 for a history of gains alone.
C22_Witness ==
    /\ Called("calculateRSI")
    /\ Arg(1) = 2 /\ InputLen = 5
    /\ AllGains(Closes(lib.priceData), 1, 2) /\ Out[3] = Some(100 * Fix)
    /\ Val(Out[5]) > 0 /\ Val(Out[5]) < 100 * Fix

\* C23: calculateADX is defined at an index exactly when 2 x period
\* observations exist up to and including it (index + 1 >= 2 x period), and a
\* defined value is in [0, 100].
C23_AdxFromTwicePeriodObservations ==
    Called("calculateADX") =>
        \A i \in 0..(InputLen - 1) :
            /\ Out[i + 1] # Null <=> i + 1 >= 2 * Arg(1)
            /\ Out[i + 1] # Null =>
                  0 <= Val(Out[i + 1]) /\ Val(Out[i + 1]) <= 100 * Fix

\* C26: calculateMACD returns three sequences of the input length; macd is
\* defined from index slow - 1 and is EMA_fast - EMA_slow; signal is the EMA
\* of the defined macd values placed so that its entry for a macd value sits
\* at that value's index, defined from index slow + signal - 2; histogram is
\* defined where both are and is macd - signal.
C26_MacdSignalAligned ==
    Called("calculateMACD") =>
        LET closes == Closes(lib.priceData)
            fast == Arg(1)
            slow == Arg(2)
            signalPeriod == Arg(3)
            emaFast == CalculateEMA(closes, fast)
            emaSlow == CalculateEMA(closes, slow)
            tail == [j \in 1..(InputLen - (slow - 1)) |-> Val(Out.macd[slow - 1 + j])]
            tailEma == CalculateEMA(tail, signalPeriod)
        IN  /\ Len(Out.macd) = InputLen
            /\ Len(Out.signal) = InputLen
            /\ Len(Out.histogram) = InputLen
            /\ \A i \in 0..(InputLen - 1) :
                  /\ Out.macd[i + 1] # Null <=> i >= slow - 1
                  /\ Out.macd[i + 1] # Null =>
                        Val(Out.macd[i + 1]) = Val(emaFast[i + 1]) - Val(emaSlow[i + 1])
                  /\ Out.signal[i + 1] # Null <=> i >= slow + signalPeriod - 2
                  /\ i >= slow - 1 => Out.signal[i + 1] = tailEma[i - (slow - 1) + 1]
                  /\ Out.histogram[i + 1] # Null <=>
                        (Out.macd[i + 1] # Null /\ Out.signal[i + 1] # Null)
                  /\ Out.histogram[i + 1] # Null =>
                        Val(Out.histogram[i + 1]) =
                            Val(Out.macd[i + 1]) - Val(Out.signal[i + 1])

\* C26 witness: a series with macd defined before signal, and a histogram
\* that is not zero.
C26_Witness ==
    /\ Called("calculateMACD")
    /\ Arg(2) = 3 /\ Arg(3) = 2 /\ InputLen = 5
    /\ Out.macd[3] # Null /\ Out.signal[3] = Null /\ Out.signal[4] # Null
    /\ Out.histogram[5] # Null /\ Val(Out.histogram[5]) # 0

\* ------------------------------------------ a growing series of PricePoints
\* The price collector stores one more PricePoint; calculateAllIndicators is
\* then called on the whole series again. lib.call holds the answer of the
\* last call, which is stale until the next one.
MaxAppend == 2
BaseLengths == {0, 14, 19, 27, 33, 34}
BasePoint(k, j) ==
    LET close == (20 + ((j * j + k * j) % 7)) * Fix
    IN  [close |-> close,
         high |-> close + ((j + k) % 3) * (Fix \div 2),
         low |-> close - (j % 2) * Fix]
NewPoints ==
    {[close |-> 21 * Fix, high |-> 22 * Fix, low |-> 21 * Fix],
     [close |-> 25 * Fix, high |-> 25 * Fix, low |-> 23 * Fix]}

StorePricePoint(point) ==
    /\ lib.added < MaxAppend
    /\ lib' = [lib EXCEPT !.priceData = Append(@, point), !.added = @ + 1]
    /\ UNCHANGED <<today, prices, predictions, run, writes, sim, stats,
                   recommendations, indicators, calc, batch, lastRun, calendar>>

CallAllIndicators ==
    /\ IF lib.call = Null THEN TRUE ELSE Len(Val(lib.call).out) < Len(lib.priceData)
    /\ lib' = [lib EXCEPT !.call = Some([fn |-> "calculateAllIndicators", args |-> <<>>,
                                         out |-> AllIndicators(lib.priceData)]),
                          !.calls = @ + 1]
    /\ UNCHANGED <<today, prices, predictions, run, writes, sim, stats,
                   recommendations, indicators, calc, batch, lastRun, calendar>>

InitStream ==
    /\ today = 0
    /\ prices = [c \in {Tracked} |-> [d \in Days |-> Null]]
    /\ predictions = <<>>
    /\ run = [r \in Runners |-> IdleRun]
    /\ writes = <<>>
    /\ sim = IdleSim
    /\ QuietServices
    /\ calendar = <<>>
    /\ \E k \in {1, 2}, n \in BaseLengths :
          lib = [priceData |-> [j \in 1..n |-> BasePoint(k, j)],
                 call |-> Null, added |-> 0, calls |-> 0]

NextStream ==
    \/ \E point \in NewPoints : StorePricePoint(point)
    \/ CallAllIndicators

StreamSpec == InitStream /\ [][NextStream]_vars

\* C24: no lookahead. A call of calculateAllIndicators on a series that has
\* grown since the last call gives, at every index the last call covered, the
\* same record as before: every field, defined or not, and its value.
C24_NoLookahead ==
    [][ (lib.call # Null /\ lib'.call # lib.call) =>
           \A j \in 1..Len(Val(lib.call).out) :
               Val(lib'.call).out[j] = Val(lib.call).out[j] ]_vars

\* C24 witness: a second call, on a series two points longer than the first,
\* where the MACD signal and histogram, the stochastic %K and %D and the ADX
\* are defined at the last index the first call covered.
C24_Witness ==
    /\ lib.call # Null /\ lib.calls = 2 /\ lib.added = 2
    /\ Len(lib.priceData) = SetMax(BaseLengths) + 2
    /\ Len(Val(lib.call).out) = Len(lib.priceData)
    /\ LET last == Val(lib.call).out[Len(lib.priceData) - 2]
       IN  /\ last.macdSignal # Null /\ last.macdHistogram # Null
           /\ last.stochasticK # Null /\ last.stochasticD # Null
           /\ last.adx14 # Null /\ last.rsi14 # Null /\ last.bollingerUpper # Null

\* ------------------------------------------------------------ drawdown
\* The capital after the first k trades of the ledger, and its running peak.
LedgerCapital(k) == StartingCapital * Nok + SumReturns(SubSeq(sim.trades, 1, k))
LedgerPeak(k) == SetMax({LedgerCapital(j) : j \in 0..k})

\* C25: summary.maxDrawdown is the largest (peak - capital) / peak x 100 over
\* the prefixes of the ledger, capital being startingCapital plus the returns
\* so far and peak its running maximum; the peak never decreases, the figure
\* is never negative, and it is 0 when capital never falls under its peak or
\* nothing was traded.
C25_MaxDrawdownOverPrefixes ==
    sim.pc = "done" =>
        LET n == Len(sim.trades)
            maxDrawdown == Val(sim.result).summary.maxDrawdown
            declines == {DrawdownPercent(LedgerPeak(k), LedgerCapital(k)) : k \in 0..n}
        IN  /\ maxDrawdown = SetMax(declines)
            /\ maxDrawdown >= 0
            /\ \A k \in 1..n : LedgerPeak(k) >= LedgerPeak(k - 1)
            /\ (\A k \in 0..n : LedgerCapital(k) = LedgerPeak(k)) => maxDrawdown = 0
            /\ n = 0 => maxDrawdown = 0

\* C25 witness: a gain, then a loss that leaves the capital above where it
\* started: a drawdown from the peak, none from the starting capital.
C25_Witness ==
    /\ sim.pc = "done" /\ Len(sim.trades) >= 2
    /\ LedgerCapital(1) > LedgerCapital(0)
    /\ LedgerCapital(2) < LedgerCapital(1) /\ LedgerCapital(2) > LedgerCapital(0)
    /\ Val(sim.result).summary.maxDrawdown > 0

\* ------------------------------------------------------ market calendar
\* Wall-clock time in Europe/Oslo: day d is April d, 2026 (April 1 being a
\* Wednesday), an instant is [day, minute of the day, second].
TradingDays == {1, 2, 3, 4, 5}
Holidays == {2, 3, 6}
OpenMinute == 9 * 60 + 0
CloseMinute == 16 * 60 + 20
GetDay(day) == (day + 2) % 7

\* setMinutes(setHours(t, hour), minute): the seconds of t are kept.
SetHoursMinutes(t, minute) == [t EXCEPT !.minute = minute]
AddDays(t, n) == [t EXCEPT !.day = @ + n]
Seconds(t) == (t.day * 24 * 60 + t.minute) * 60 + t.second

\* isMarketOpen, at the instant now.
IsMarketOpen(now) ==
    IF GetDay(now.day) \notin TradingDays THEN FALSE
    ELSE IF now.day \in Holidays THEN FALSE
    ELSE LET marketOpen == SetHoursMinutes(now, OpenMinute)
             marketClose == SetHoursMinutes(now, CloseMinute)
         IN  Seconds(marketOpen) <= Seconds(now) /\ Seconds(now) <= Seconds(marketClose)

\* The while loop of getNextMarketOpen: skip weekends and holidays.
RECURSIVE SkipClosedDays(_)
SkipClosedDays(nextOpen) ==
    IF GetDay(nextOpen.day) \notin TradingDays \/ nextOpen.day \in Holidays
    THEN SkipClosedDays(AddDays(nextOpen, 1))
    ELSE nextOpen

\* getNextMarketOpen, at the instant now.
GetNextMarketOpen(now) ==
    IF IsMarketOpen(now) THEN now
    ELSE LET nextOpen == SetHoursMinutes(now, OpenMinute)
             marketClose == SetHoursMinutes(now, CloseMinute)
         IN  SkipClosedDays(IF Seconds(now) > Seconds(marketClose)
                            THEN AddDays(nextOpen, 1) ELSE nextOpen)

CallIsMarketOpen ==
    /\ calendar.isOpen = Null
    /\ calendar' = [calendar EXCEPT !.isOpen = Some(IsMarketOpen(calendar.now))]
    /\ UNCHANGED <<today, prices, predictions, run, writes, sim, stats,
                   recommendations, indicators, calc, batch, lastRun, lib>>

CallGetNextMarketOpen ==
    /\ calendar.nextOpen = Null
    /\ calendar' = [calendar EXCEPT !.nextOpen = Some(GetNextMarketOpen(calendar.now))]
    /\ UNCHANGED <<today, prices, predictions, run, writes, sim, stats,
                   recommendations, indicators, calc, batch, lastRun, lib>>

\* The instants asked about: April 1 to 7, around the opening and the close.
ClockDays == 1..7
ClockMinutes ==
    {0, OpenMinute - 1, OpenMinute, OpenMinute + 1, 12 * 60,
     CloseMinute - 1, CloseMinute, CloseMinute + 1, 24 * 60 - 1}
ClockSeconds == {0, 30}

InitCalendar ==
    /\ today = 0
    /\ prices = [c \in {Tracked} |-> [d \in Days |-> Null]]
    /\ predictions = <<>>
    /\ run = [r \in Runners |-> IdleRun]
    /\ writes = <<>>
    /\ sim = IdleSim
    /\ QuietServices
    /\ lib = <<>>
    /\ \E d \in ClockDays, m \in ClockMinutes, sec \in ClockSeconds :
          calendar = [now |-> [day |-> d, minute |-> m, second |-> sec],
                      isOpen |-> Null, nextOpen |-> Null]

NextCalendar == CallIsMarketOpen \/ CallGetNextMarketOpen

CalendarSpec == InitCalendar /\ [][NextCalendar]_vars

\* An opening of the market: 09:00:00 of a trading day that is no holiday.
IsOpening(t) ==
    /\ GetDay(t.day) \in TradingDays /\ t.day \notin Holidays
    /\ t.minute = OpenMinute /\ t.second = 0
Openings == {[day |-> d, minute |-> OpenMinute, second |-> 0] : d \in 1..9}

\* C27: when the market is closed, getNextMarketOpen gives the earliest
\* opening after now: later than now, at 09:00 of a trading day that is no
\* holiday, no opening lying between; and isMarketOpen is true only on such a
\* day from 09:00 to 16:20.
C27_NextOpenIsEarliestOpening ==
    /\ (calendar # <<>> /\ calendar.nextOpen # Null /\ ~IsMarketOpen(calendar.now)) =>
          LET next == Val(calendar.nextOpen)
          IN  /\ Seconds(next) > Seconds(calendar.now)
              /\ IsOpening(next)
              /\ \A t \in Openings :
                    (IsOpening(t) /\ Seconds(t) > Seconds(calendar.now)) =>
                        Seconds(next) <= Seconds(t)
    /\ (calendar # <<>> /\ calendar.isOpen = Some(TRUE)) =>
          /\ GetDay(calendar.now.day) \in TradingDays
          /\ calendar.now.day \notin Holidays
          /\ Seconds(SetHoursMinutes([calendar.now EXCEPT !.second = 0], OpenMinute))
                 <= Seconds(calendar.now)
          /\ Seconds(calendar.now)
                 <= Seconds(SetHoursMinutes([calendar.now EXCEPT !.second = 0], CloseMinute))

\* ------------------------------------------------- the validator's counters
\* C28: in every run validated = correct + incorrect; the run counts a
\* prediction as validated exactly when it moves that prediction from pending
\* to resolved, and as correct exactly when it stores isCorrect = true for it.
C28_CountsAreTheRunsResolutions ==
    /\ [](\A r \in Runners : run[r].validated = run[r].correct + run[r].incorrect)
    /\ [][ /\ \A r \in Runners :
                 (run[r].pc = "update" /\ run'[r].validated = run[r].validated + 1) =>
                     LET p == Current(r)
                     IN  /\ Pending(predictions[p]) /\ Resolved(predictions'[p])
                         /\ run'[r].correct = run[r].correct + 1
                                <=> predictions'[p].isCorrect = Some(TRUE)
           /\ \A p \in PredIds :
                 (Pending(predictions[p]) /\ Resolved(predictions'[p])) =>
                     \E r \in Runners :
                         /\ run[r].pc = "update" /\ Current(r) = p
                         /\ run'[r].validated = run[r].validated + 1 ]_vars

\* C29: a resolved prediction's stored actualDirection agrees with the sign of
\* its stored actualChangePercent ('up' with > 0, 'down' with < 0, 'flat'
\* with 0), so the simulator, working from the stored actualPrice and
\* actualChangePercent, gives a strictly positive gross move to every
\* prediction stored as correct.
C29_StoredEnrichmentConsistent ==
    \A p \in PredIds :
        Resolved(predictions[p]) =>
            LET row == predictions[p]
                percent == Val(row.actualChangePercent)
            IN  /\ row.actualDirection = Some("up") <=> percent > 0
                /\ row.actualDirection = Some("down") <=> percent < 0
                /\ row.actualDirection = Some("flat") <=> percent = 0
                /\ row.isCorrect = Some(TRUE) =>
                       GrossReturn(row, DefaultPositionSize) > 0

\* ------------------------------------------------- same-day predictions
\* create-mock-predictions.ts stores, for a company with two PricePoints,
\* a prediction whose predictionDate and targetDate are both the day it runs;
\* the prediction generator's rows are dated a day ahead.
MockRows ==
    {PendingRow(Tracked, 1, 1, d, c, Some(105)) : d \in {"up", "down"}, c \in {15, 30}}
GeneratedRows ==
    {PendingRow(Tracked, 0, 1, d, c, Some(105)) : d \in {"up", "down"}, c \in {60, 80}}

InitMock ==
    /\ today = 2
    /\ \E h \in {<<100, 110>>, <<110, 100>>, <<100, 100>>} :
          prices = [c \in {Tracked} |->
                      [d \in Days |-> IF d = 0 THEN Some(h[1])
                                      ELSE IF d = 1 THEN Some(h[2]) ELSE Null]]
    /\ predictions \in [PredIds -> MockRows \cup GeneratedRows]
    /\ run = [r \in Runners |-> IdleRun]
    /\ writes = [p \in PredIds |-> 0]
    /\ sim = IdleSim
    /\ Quiet

NextMock == Calls("scheduled")

MockSpec == InitMock /\ [][NextMock]_vars

\* The dates of the PricePoints the two findFirst calls answer with.
ActualDate(p) ==
    SetMin({d \in Days : /\ d >= predictions[p].targetDate
                         /\ d < predictions[p].targetDate + 1
                         /\ prices[predictions[p].companyId][d] # Null})
BaselineDate(p) ==
    SetMax({d \in Days : /\ d <= predictions[p].predictionDate
                         /\ prices[predictions[p].companyId][d] # Null})

\* C30: the baseline PricePoint of a prediction the validator resolves is
\* dated strictly before the actual PricePoint: no prediction is scored
\* against its own baseline.
C30_BaselineBeforeActual ==
    \A p \in PredIds :
        (Resolved(predictions[p]) /\ writes[p] >= 1) => BaselineDate(p) < ActualDate(p)

====
